---- MODULE Spec2Model ----
(***************************************************************************)
(* Model of the agent-backed streaming turn (sendMessageStreaming and its  *)
(* helpers in server/src/llm/title-generator.ts) and of the cache-backed   *)
(* conversation service (server/src/modules/conversation/                 *)
(* conversation.service.ts).                                              *)
(*                                                                         *)
(* Strings are modelled as sequences of tokens, so that join('') and +     *)
(* are sequence concatenation and '' is <<>>.                              *)
(***************************************************************************)
EXTENDS Integers, Sequences, FiniteSets, TLC

\* ------------------------------------------------------------------ bounds

\* number of pushes (events and sentinels) the worker side makes in one turn
MaxPush == 2
\* number of queue waits that may elapse their full timeout while the run is alive
MaxTimeouts == 1

\* number of service calls (reads and writes of one conversation) in one run
MaxCalls == 3
\* number of loadConversations calls the client makes in one run
MaxLoads == 3
\* number of data events on the worker's stdout and stderr
MaxData == 2
\* number of transcript-relevant events relayed before the save
MaxEvents == 3
\* number of timeouts that elapse on an idle, live run
MaxIdleTimeouts == 3
\* number of listConversations calls that run beside a turn
MaxListCalls == 2
\* number of turns that run side by side
MaxTurns == 2

\* ------------------------------------------------------------- data values

NoConv == "none"
ExistingConv == "c1"
NewConv == "c2"
User == "u1"
OtherUser == "u2"
ReplyId == "r1"
UserMessageId == "m-user"
AssistantMessageId == "m-assistant"
\* the user's message, one token per character: longer than the 10 of the fallback title
Message == <<"m", "e", "s", "s", "a", "g", "e", " ", "t", "e", "x", "t">>
NoTextContent == <<"(no text content)">>

Null == [type |-> "null", content |-> <<>>, seq |-> 0]

\* events the worker may emit; seq is the producer-assigned sequence number
WorkerEvents ==
    { [type |-> "text",        content |-> <<"a">>, seq |-> 2],
      [type |-> "chunk",       content |-> <<"b">>, seq |-> 1],
      [type |-> "thinking",    content |-> <<"t">>, seq |-> 3],
      [type |-> "tool_call",   content |-> <<"c">>, seq |-> 1],
      [type |-> "tool_result", content |-> <<"r">>, seq |-> 2] }

TitleEvent(t) == [type |-> "title_generated", content |-> t, seq |-> 0]
StartRecord(conv) == [type |-> "start", content |-> <<conv, ReplyId>>, seq |-> 0]
DoneRecord(conv) == [type |-> "done", content |-> <<conv>>, seq |-> 0]
Heartbeat == [type |-> "heartbeat", content |-> <<>>, seq |-> 0]

\* ---------------------------------------------------------------- helpers

RECURSIVE Join(_)
\* Array.prototype.join('') over an array of strings
Join(parts) ==
    IF parts = <<>> THEN <<>> ELSE Head(parts) \o Join(Tail(parts))

RECURSIVE MergePairsInto(_, _)
\* a merge that joins a text entry to the one before it and then takes the
\* entry after it as it is
MergePairsInto(result, events) ==
    IF events = <<>> THEN result
    ELSE LET event == Head(events)
             n == Len(result)
             rest == Tail(events)
         IN IF event.type = "text" /\ n > 0 /\ result[n].type = "text"
            THEN LET merged == [result EXCEPT ![n].content = @ \o event.content]
                 IN IF rest = <<>> THEN merged
                    ELSE MergePairsInto(Append(merged, Head(rest)), Tail(rest))
            ELSE MergePairsInto(Append(result, event), rest)

RECURSIVE MergeInto(_, _)
\* the for-loop of mergeAdjacentTextEvents: result so far, events left
MergeInto(result, events) ==
    IF events = <<>> THEN result
    ELSE LET event == Head(events)
             n == Len(result)
         IN IF event.type = "text" /\ n > 0 /\ result[n].type = "text"
            THEN MergeInto([result EXCEPT ![n].content = @ \o event.content],
                           Tail(events))
            ELSE MergeInto(Append(result, event), Tail(events))

\* a push of the entry itself: the last entry of result is the k-th entry of
\* the caller's list
PushEventItself(k) == k

\* line 442: result.push({ ...event }) puts a new object at the end of result,
\* which is none of the entries of the caller's list (0)
PushCopy(k) == 0

RECURSIVE EventsAfterMerge(_, _, _)
\* lines 437-444 seen from the caller: the list handed to
\* mergeAdjacentTextEvents as the loop leaves it.  k is the position of the
\* loop, last the entry at the end of result with the index of the entry of
\* the list it is the same object as; line 440 writes to that object.
EventsAfterMerge(events, k, last) ==
    IF k > Len(events) THEN events
    ELSE LET event == events[k]
         IN IF event.type = "text" /\ last.type = "text"
            THEN LET content == last.content \o event.content
                 IN EventsAfterMerge(
                        IF last.alias = 0 THEN events
                        ELSE [events EXCEPT ![last.alias].content = content],
                        k + 1, [last EXCEPT !.content = content])
            ELSE EventsAfterMerge(events, k + 1,
                                  [type |-> event.type, content |-> event.content,
                                   alias |-> PushCopy(k)])

\* a save that stores the transcript entries as collected
NoMerge(events) == events

mergeAdjacentTextEvents(events) == MergeInto(<<>>, events)

\* ------------------------------------------------------------------ state

VARIABLES
    \* --- the relational store and the key-value cache
    conversations,      \* conversation id -> [userId, title, updatedAt]
    messages,           \* message rows in creation order
    messagesCache,      \* conversation id -> (page tag -> cached page): the redis hash
    messagesCacheTTL,   \* conversation id -> whether the hash carries an expiry
    conversationsCache, \* page tag -> cached page of User's conversation list
    conversationsCacheTTL,
    now,                \* logical clock behind new Date()
    socketReady,        \* getSocketManager() returns a manager (else it throws)
    \* --- the run registry (agent manager)
    runExists,          \* a run is tracked for ReplyId
    runAlive,           \* isRunning(ReplyId)
    sseCallback,        \* a callback is registered for ReplyId
    \* --- sendMessageStreaming: parameters, locals and position
    convInput,          \* options.conversationId
    pc,
    conversationId,
    isNewConversation,
    assistantContent,
    assistantEvents,
    messageQueue,
    resolveWaiting,     \* resolveWaiting !== null
    \* --- generateAndUpdateTitle
    titlePc,
    title,              \* [text: the title generateTitle returned, fallback: it is the
                        \*  fallback, commit: how the store answered the commit]
    \* --- what the turn sends out
    yielded,            \* records yielded to the consumer, in order
    presence,           \* broadcastReplyingState / broadcastCancelled calls, in order
    \* --- calls of the conversation service, each at its own position
    calls,              \* call number -> [op, pc, user, tag, result, error, ...]
    \* --- the client's chat store
    chat,               \* [conversations, pendingTitleUpdates] and its requests in flight
    \* --- the process launcher
    child,              \* the worker process spawnAgentProcess started, its channels and logs
    \* --- several turns side by side
    turns,              \* turn number -> [pc, alive, interrupted]: where the turn is,
                        \*  whether its run is alive, what interruptAgent returned for it
    \* --- bookkeeping of the run of the model (not program state)
    pushed,             \* everything the callback has put on the queue, in order
    dropped,            \* events handed to pushToSSEQueue with no callback registered
    pushes,             \* pushes made by the worker side
    timeouts,           \* waits that elapsed their timeout while the run was alive
    saveCalls,          \* calls of saveAssistantMessage
    saveOutcome,        \* how the store answered saveAssistantMessage
    exitPath,           \* how the relay loop was left
    iter,               \* the current loop iteration: how its wait ended, what it relayed
    interrupted         \* result of interruptAgent, and the loop's counters at that time

serviceVars == <<conversations, messages, messagesCache, messagesCacheTTL,
                 conversationsCache, conversationsCacheTTL, now, socketReady, calls,
                 chat, child, turns>>
registryVars == <<runExists, runAlive, sseCallback>>
turnVars == <<convInput, pc, conversationId, isNewConversation, assistantContent,
              assistantEvents, messageQueue, resolveWaiting, titlePc, title, yielded, presence>>
histVars == <<pushed, dropped, pushes, timeouts, saveCalls, saveOutcome, exitPath, iter,
              interrupted>>
vars == <<serviceVars, registryVars, turnVars, histVars>>

ConvIds == {ExistingConv, NewConv}
NoPages == [t \in {} |-> <<>>]
NoTitle == [text |-> <<>>, fallback |-> FALSE, commit |-> "none"]
\* no title queued
NoTitles == [id \in {} |-> <<>>]
\* the chat store as defineStore creates it (lines 6-11), no request in flight;
\* owed, applied, titled and stale are bookkeeping: the titles queued and not
\* yet seen in a loaded list, the loads that applied a queued title, the title
\* updateConversationTitle last put on a listed conversation, and how many of
\* the loads in flight at that moment are, at the least, still in flight
EmptyChat == [conversations |-> <<>>, pendingTitleUpdates |-> NoTitles,
              inflight |-> 0, started |-> 0, completed |-> 0,
              owed |-> NoTitles, applied |-> 0,
              titled |-> [id |-> NoConv, title |-> <<>>], stale |-> 0]
NewIter == [wait |-> "none", relayed |-> 0]
\* no worker process started yet
NoChild == [pc |-> "none", args |-> {}, stdin |-> "none", query |-> "none",
            logger |-> <<>>, logFile |-> <<>>, logStreamEnds |-> 0,
            threw |-> FALSE, data |-> 0]
\* a turn that has not been started
NoTurn == [pc |-> "begin", alive |-> FALSE, interrupted |-> "none"]
NotInterrupted == [result |-> "none", waits |-> 0, heartbeats |-> 0]

Count(seq, type) == Cardinality({i \in 1..Len(seq) : seq[i].type = type})

Calls == 1..MaxCalls
Turns == 1..MaxTurns
\* the (limit, offset) pairs the callers use; the cache tag `${limit}:${offset}`
PageTags == {<<100, 0>>, <<1, 1>>}
IdleCall == [op |-> "none", pc |-> "idle", user |-> User, tag |-> <<100, 0>>,
             result |-> <<>>, error |-> "none", mustSee |-> 0, msgIndex |-> 0,
             cleared |-> 0]

Init ==
    /\ calls = [i \in Calls |-> IdleCall]
    /\ chat = EmptyChat
    /\ child = NoChild
    /\ turns = [t \in Turns |-> NoTurn]
    /\ conversations = [c \in {ExistingConv} |->
                            [userId |-> User, title |-> <<"o">>, updatedAt |-> 0]]
    /\ messages = <<>>
    /\ messagesCache = [c \in ConvIds |-> NoPages]
    /\ messagesCacheTTL = [c \in ConvIds |-> FALSE]
    /\ conversationsCache = NoPages
    /\ conversationsCacheTTL = FALSE
    /\ now = 0
    /\ socketReady \in BOOLEAN
    /\ runExists = FALSE
    /\ runAlive = FALSE
    /\ sseCallback = FALSE
    /\ convInput \in {NoConv, ExistingConv}
    /\ pc = "begin"
    /\ conversationId = convInput
    /\ isNewConversation = FALSE
    /\ assistantContent = <<>>
    /\ assistantEvents = <<>>
    /\ messageQueue = <<>>
    /\ resolveWaiting = FALSE
    /\ titlePc = "idle"
    /\ title = NoTitle
    /\ yielded = <<>>
    /\ presence = <<>>
    /\ pushed = <<>>
    /\ dropped = 0
    /\ pushes = 0
    /\ timeouts = 0
    /\ saveCalls = 0
    /\ saveOutcome = "none"
    /\ exitPath = "none"
    /\ iter = NewIter
    /\ interrupted = NotInterrupted

\* ------------------------------------------- conversation service (store)
\* Each operation below is one call run to completion.  `outcome` names the
\* first store or cache call of the operation that rejects ("ok": none); the
\* calls before it have taken effect, the operation then throws.

Min(a, b) == IF a < b THEN a ELSE b
\* String.prototype.slice(0, n)
Slice(s, n) == SubSeq(s, 1, Min(n, Len(s)))

InternalOutcomes == {"ok", "createFail", "updateFail", "cacheFail"}

\* createConversationInternal: conversation.create, invalidateConversationsCache
createConversationInternal(conv, userId, convTitle, outcome) ==
    /\ now' = now + 1
    /\ conversations' =
         IF outcome = "createFail" THEN conversations
         ELSE [c \in DOMAIN conversations \cup {conv} |->
                 IF c = conv
                 THEN [userId |-> userId, title |-> convTitle, updatedAt |-> now + 1]
                 ELSE conversations[c]]
    /\ conversationsCache' = IF outcome = "ok" THEN NoPages ELSE conversationsCache
    /\ conversationsCacheTTL' = IF outcome = "ok" THEN FALSE ELSE conversationsCacheTTL
    /\ UNCHANGED <<messages, messagesCache, messagesCacheTTL, socketReady, calls, chat, child>>

\* createMessageInternal and createMessageWithMetadataInternal (metadata given):
\* message.create, conversation.update(updatedAt), invalidateMessagesCache
createMessageInternal(conv, role, content, messageId, metadata, outcome) ==
    /\ now' = now + 1
    /\ messages' =
         IF outcome = "createFail" THEN messages
         ELSE Append(messages, [id |-> messageId, conversationId |-> conv,
                                role |-> role, content |-> content,
                                metadata |-> metadata])
    /\ conversations' =
         IF outcome \in {"createFail", "updateFail"} THEN conversations
         ELSE [conversations EXCEPT ![conv].updatedAt = now + 1]
    /\ messagesCache' = IF outcome = "ok" THEN [messagesCache EXCEPT ![conv] = NoPages]
                        ELSE messagesCache
    /\ messagesCacheTTL' = IF outcome = "ok" THEN [messagesCacheTTL EXCEPT ![conv] = FALSE]
                           ELSE messagesCacheTTL
    /\ UNCHANGED <<conversationsCache, conversationsCacheTTL, socketReady, calls, chat, child>>

\* updateConversationTitleInternal: conversation.update(title), invalidateConversationsCache
updateConversationTitleInternal(conv, newTitle, outcome) ==
    /\ conversations' =
         IF outcome = "updateFail" THEN conversations
         ELSE [conversations EXCEPT ![conv].title = newTitle]
    /\ conversationsCache' = IF outcome = "ok" THEN NoPages ELSE conversationsCache
    /\ conversationsCacheTTL' = IF outcome = "ok" THEN FALSE ELSE conversationsCacheTTL
    /\ UNCHANGED <<messages, messagesCache, messagesCacheTTL, now, socketReady,
                   calls, chat, child>>

\* ------------------------------------------------------------ run registry

\* the callback sendMessageStreaming registers: queue the message, wake a waiting loop
Callback(msg) ==
    /\ messageQueue' = Append(messageQueue, msg)
    /\ pushed' = Append(pushed, msg)
    /\ IF resolveWaiting
       THEN /\ resolveWaiting' = FALSE
            /\ IF pc = "waiting"
               THEN pc' = "woken" /\ iter' = [iter EXCEPT !.wait = "push"]
               ELSE UNCHANGED <<pc, iter>>
       ELSE UNCHANGED <<resolveWaiting, pc, iter>>
    /\ UNCHANGED dropped

\* pushToSSEQueue(replyId, msg): hand msg to the registered callback, else drop it
pushToSSEQueue(msg) ==
    IF sseCallback
    THEN Callback(msg)
    ELSE /\ dropped' = dropped + 1
         /\ UNCHANGED <<messageQueue, pushed, resolveWaiting, pc, iter>>

\* try { getSocketManager(); await broadcast...(signal); ... } catch {}: the log
\* with the broadcasts of one try block added.  While the socket manager is not
\* ready the first one throws: it is logged as not delivered, the rest are skipped.
Broadcast(log, signals) ==
    IF socketReady
    THEN log \o [i \in 1..Len(signals) |->
                   [signal |-> signals[i].signal, replying |-> signals[i].replying,
                    conv |-> signals[i].conv, delivered |-> TRUE]]
    ELSE Append(log, [signal |-> signals[1].signal, replying |-> signals[1].replying,
                      conv |-> signals[1].conv, delivered |-> FALSE])

ReplyingState(replying, conv) ==
    [signal |-> "replying", replying |-> replying, conv |-> conv]
Cancelled == [signal |-> "cancelled", replying |-> FALSE, conv |-> ReplyId]

\* ------------------------------------------------- sendMessageStreaming
\* The generator is suspended at pc; each action runs it from one suspension
\* point (an await or a yield) to the next.
\*   begin       not yet started
\*   saveUser    awaiting createMessageInternal for the user message
\*   presenceOn  awaiting the replying=true broadcast
\*   atStart     suspended at `yield start`
\*   spawned     awaiting spawnAgent
\*   waiting     awaiting timeoutPromise
\*   woken       timeoutPromise resolved by a push, continuation not yet run
\*   atEvent     suspended at `yield msg`
\*   atHeartbeat suspended at `yield heartbeat`
\*   saving      awaiting saveAssistantMessage
\*   atDone      suspended at `yield done`
\*   ended       finished (the finally block has run if the loop was entered)
\*   threw       rejected before the first yield

\* CreateConversation that forgets to adopt the id of the conversation it created
CreateConversationKeepId ==
    /\ pc = "begin"
    /\ IF convInput = NoConv
       THEN \E outcome \in {"ok", "createFail", "cacheFail"} :
              /\ createConversationInternal(NewConv, User, Slice(Message, 50), outcome)
              /\ IF outcome = "ok"
                 THEN /\ conversationId' = ExistingConv
                      /\ isNewConversation' = TRUE
                      /\ pc' = "saveUser"
                 ELSE /\ pc' = "threw"
                      /\ UNCHANGED <<conversationId, isNewConversation>>
       ELSE /\ pc' = "saveUser"
            /\ UNCHANGED <<serviceVars, conversationId, isNewConversation>>
    /\ UNCHANGED <<turns, registryVars, convInput, assistantContent, assistantEvents,
                   messageQueue, resolveWaiting, titlePc, title, yielded, presence,
                   histVars>>

\* lines 168-174
CreateConversation ==
    /\ pc = "begin"
    /\ IF convInput = NoConv
       THEN \E outcome \in {"ok", "createFail", "cacheFail"} :
              /\ createConversationInternal(NewConv, User, Slice(Message, 50), outcome)
              /\ IF outcome = "ok"
                 THEN /\ conversationId' = NewConv
                      /\ isNewConversation' = TRUE
                      /\ pc' = "saveUser"
                 ELSE /\ pc' = "threw"
                      /\ UNCHANGED <<conversationId, isNewConversation>>
       ELSE /\ pc' = "saveUser"
            /\ UNCHANGED <<serviceVars, conversationId, isNewConversation>>
    /\ UNCHANGED <<turns, registryVars, convInput, assistantContent, assistantEvents,
                   messageQueue, resolveWaiting, titlePc, title, yielded, presence,
                   histVars>>

\* SaveUserMessage with a rejection of the store swallowed
SaveUserMessageSwallowing ==
    /\ pc = "saveUser"
    /\ \E outcome \in InternalOutcomes :
         /\ createMessageInternal(conversationId, "user", Message, UserMessageId,
                                  <<>>, outcome)
         /\ pc' = "presenceOn"
    /\ UNCHANGED <<turns, registryVars, convInput, conversationId, isNewConversation,
                   assistantContent, assistantEvents, messageQueue, resolveWaiting,
                   titlePc, title, yielded, presence, histVars>>

\* lines 184-185: the user message is written and awaited; a rejection leaves the generator
SaveUserMessage ==
    /\ pc = "saveUser"
    /\ \E outcome \in InternalOutcomes :
         /\ createMessageInternal(conversationId, "user", Message, UserMessageId,
                                  <<>>, outcome)
         /\ pc' = IF outcome = "ok" THEN "presenceOn" ELSE "threw"
    /\ UNCHANGED <<turns, registryVars, convInput, conversationId, isNewConversation,
                   assistantContent, assistantEvents, messageQueue, resolveWaiting,
                   titlePc, title, yielded, presence, histVars>>

\* BroadcastAndYieldStart that lets a failed broadcast leave the generator
BroadcastAndYieldStartPropagating ==
    /\ pc = "presenceOn"
    /\ presence' = Broadcast(presence, <<ReplyingState(TRUE, conversationId)>>)
    /\ IF socketReady
       THEN /\ yielded' = Append(yielded, StartRecord(conversationId))
            /\ pc' = "atStart"
       ELSE /\ pc' = "threw"
            /\ UNCHANGED yielded
    /\ UNCHANGED <<serviceVars, registryVars, convInput, conversationId,
                   isNewConversation, assistantContent, assistantEvents, messageQueue,
                   resolveWaiting, titlePc, title, histVars>>

\* lines 187-203: broadcast replying=true (failure swallowed), then yield start
BroadcastAndYieldStart ==
    /\ pc = "presenceOn"
    /\ presence' = Broadcast(presence, <<ReplyingState(TRUE, conversationId)>>)
    /\ yielded' = Append(yielded, StartRecord(conversationId))
    /\ pc' = "atStart"
    /\ UNCHANGED <<serviceVars, registryVars, convInput, conversationId,
                   isNewConversation, assistantContent, assistantEvents, messageQueue,
                   resolveWaiting, titlePc, title, histVars>>

\* SpawnAgent that starts title assignment before the callback is registered
SpawnAgentStartingTitle ==
    /\ pc = "atStart"
    /\ runExists' = TRUE
    /\ runAlive' \in BOOLEAN
    /\ pc' = "spawned"
    /\ titlePc' = IF isNewConversation THEN "started" ELSE titlePc
    /\ UNCHANGED <<serviceVars, sseCallback, convInput, conversationId, isNewConversation,
                   assistantContent, assistantEvents, messageQueue, resolveWaiting,
                   title, yielded, presence, histVars>>

\* lines 205-255: build the query and launch the worker.  spawnAgent tracks a run
\* and starts the process, which may fail to start.
SpawnAgent ==
    /\ pc = "atStart"
    /\ runExists' = TRUE
    /\ runAlive' \in BOOLEAN
    /\ pc' = "spawned"
    /\ UNCHANGED <<serviceVars, sseCallback, convInput, conversationId, isNewConversation,
                   assistantContent, assistantEvents, messageQueue, resolveWaiting,
                   titlePc, title, yielded, presence, histVars>>

\* lines 278-287: the queue is empty: arm the timer and await timeoutPromise
BeginWait(it) ==
    /\ pc' = "waiting"
    /\ resolveWaiting' = TRUE
    /\ iter' = it
    /\ interrupted' = IF interrupted.result = "true"
                      THEN [interrupted EXCEPT !.waits = @ + 1] ELSE interrupted

\* lines 257-287: register the callback, start title assignment for a new
\* conversation (not awaited), enter the loop; the queue was created empty.
RegisterCallback ==
    /\ pc = "spawned"
    /\ sseCallback' = TRUE
    /\ titlePc' = IF isNewConversation THEN "started" ELSE titlePc
    /\ BeginWait(NewIter)
    /\ UNCHANGED <<serviceVars, runExists, runAlive, convInput, conversationId,
                   isNewConversation, assistantContent, assistantEvents, messageQueue,
                   title, yielded, presence, pushed, dropped, pushes, timeouts,
                   saveCalls, saveOutcome, exitPath>>

\* a relay that takes the message with the smallest sequence number first
ShiftIndexBySeq(queue) ==
    CHOOSE i \in 1..Len(queue) :
        \A j \in 1..Len(queue) :
            queue[i].seq < queue[j].seq \/ (queue[i].seq = queue[j].seq /\ i <= j)

\* line 291: messageQueue.shift() takes the oldest message
ShiftIndex(queue) == 1

RemoveAt(queue, i) == SubSeq(queue, 1, i - 1) \o SubSeq(queue, i + 1, Len(queue))

\* line 313: (msgRecord.content as string) || ''
TextOf(msg) == msg.content

\* a relay that keeps the text of `text` events only
CollectTextOnly(content, msg) ==
    IF msg.type = "text" THEN Append(content, TextOf(msg)) ELSE content

\* lines 310-333: what a relayed message adds to the text buffer
CollectContent(content, msg) ==
    IF msg.type \in {"chunk", "text"} THEN Append(content, TextOf(msg)) ELSE content

\* a relay that puts every relayed message on the transcript
CollectEveryEvent(events, msg) ==
    IF msg.type \in {"chunk", "text"}
    THEN Append(events, [type |-> "text", content |-> TextOf(msg)])
    ELSE Append(events, [type |-> msg.type, content |-> msg.content])

\* lines 310-333: what a relayed message adds to the transcript
CollectEvents(events, msg) ==
    IF msg.type \in {"chunk", "text"}
    THEN Append(events, [type |-> "text", content |-> TextOf(msg)])
    ELSE IF msg.type \in {"thinking", "tool_call", "tool_result"}
    THEN Append(events, [type |-> msg.type, content |-> msg.content])
    ELSE events

\* a relay that does not recognise the end signal
NeverEndSignal(msg) == FALSE

\* line 293: the end signal
IsEndSignal(msg) == msg = Null

\* a relay that never looks at the liveness of the run
NeverStopped == FALSE

\* line 339: the queue is drained and the run is gone
AgentStopped == Len(messageQueue) = 0 /\ ~runAlive

\* a loop that goes back to waiting without a heartbeat
NoHeartbeatDue == FALSE

\* line 344: the heartbeat condition
HeartbeatDue == Len(messageQueue) = 0

\* lines 289-347: run the loop body from the inner while to the next suspension
ProcessQueue(it) ==
    IF Len(messageQueue) > 0
    THEN LET i == ShiftIndex(messageQueue)
             msg == messageQueue[i]
         IN /\ messageQueue' = RemoveAt(messageQueue, i)
            /\ IF IsEndSignal(msg)
               THEN /\ pc' = "saving"
                    /\ exitPath' = "sentinel"
                    /\ iter' = it
                    /\ UNCHANGED <<assistantContent, assistantEvents, yielded>>
               ELSE /\ assistantContent' = CollectContent(assistantContent, msg)
                    /\ assistantEvents' = CollectEvents(assistantEvents, msg)
                    /\ yielded' = Append(yielded, msg)
                    /\ pc' = "atEvent"
                    /\ iter' = [it EXCEPT !.relayed = @ + 1]
                    /\ UNCHANGED exitPath
            /\ UNCHANGED <<resolveWaiting, interrupted>>
    ELSE IF AgentStopped
    THEN /\ pc' = "saving"
         /\ exitPath' = "stopped"
         /\ iter' = it
         /\ UNCHANGED <<messageQueue, assistantContent, assistantEvents, yielded,
                        resolveWaiting, interrupted>>
    ELSE IF HeartbeatDue
    THEN /\ yielded' = Append(yielded, Heartbeat)
         /\ pc' = "atHeartbeat"
         /\ iter' = it
         /\ UNCHANGED <<messageQueue, assistantContent, assistantEvents, exitPath,
                        resolveWaiting, interrupted>>
    ELSE /\ BeginWait(NewIter)
         /\ UNCHANGED <<messageQueue, assistantContent, assistantEvents, yielded,
                        exitPath>>

\* line 280: the 30 s timer fires; its continuation runs in the same turn of the
\* event loop, so no push comes in between.  At most `bound` timeouts elapse
\* while the run is alive.
WaitTimeoutWithin(bound) ==
    /\ pc = "waiting"
    /\ runAlive => timeouts < bound
    /\ timeouts' = IF runAlive THEN timeouts + 1 ELSE timeouts
    /\ ProcessQueue([iter EXCEPT !.wait = "timeout"])
    /\ UNCHANGED <<serviceVars, registryVars, convInput, conversationId,
                   isNewConversation, titlePc, title, presence, pushed, dropped,
                   pushes, saveCalls, saveOutcome>>

WaitTimeout == WaitTimeoutWithin(MaxTimeouts)

\* line 286 onwards: the continuation of a wait that a push resolved
ResumeAfterPush ==
    /\ pc = "woken"
    /\ ProcessQueue(iter)
    /\ UNCHANGED <<serviceVars, registryVars, convInput, conversationId,
                   isNewConversation, titlePc, title, presence, pushed, dropped,
                   pushes, timeouts, saveCalls, saveOutcome>>

\* line 335: the consumer asks for the next record after an event
ResumeAfterEvent ==
    /\ pc = "atEvent"
    /\ ProcessQueue(iter)
    /\ UNCHANGED <<serviceVars, registryVars, convInput, conversationId,
                   isNewConversation, titlePc, title, presence, pushed, dropped,
                   pushes, timeouts, saveCalls, saveOutcome>>

\* line 345 and back to line 276: the consumer asks for the next record after a heartbeat
ResumeAfterHeartbeat ==
    /\ pc = "atHeartbeat"
    /\ IF Len(messageQueue) = 0
       THEN /\ BeginWait(NewIter)
            /\ UNCHANGED <<messageQueue, assistantContent, assistantEvents, yielded,
                           exitPath>>
       ELSE ProcessQueue(NewIter)
    /\ UNCHANGED <<serviceVars, registryVars, convInput, conversationId,
                   isNewConversation, titlePc, title, presence, pushed, dropped,
                   pushes, timeouts, saveCalls, saveOutcome>>

\* a save that stores the collected text as it is
KeepContent(content) == content

\* line 422: content || '(no text content)'
ContentOrPlaceholder(content) == IF content = <<>> THEN NoTextContent ELSE content

\* SaveAssistantMessage that lets a rejection of the store leave the generator:
\* the finally block runs, `done` is not yielded
SaveAssistantMessagePropagating ==
    /\ pc = "saving"
    /\ saveCalls' = saveCalls + 1
    /\ assistantEvents' =
         EventsAfterMerge(assistantEvents, 1,
                          [type |-> "none", content |-> <<>>, alias |-> 0])
    /\ \E outcome \in InternalOutcomes :
         /\ createMessageInternal(conversationId, "assistant",
                                  ContentOrPlaceholder(Join(assistantContent)),
                                  AssistantMessageId,
                                  mergeAdjacentTextEvents(assistantEvents), outcome)
         /\ saveOutcome' = outcome
         /\ IF outcome = "ok"
            THEN /\ yielded' = Append(yielded, DoneRecord(conversationId))
                 /\ pc' = "atDone"
                 /\ UNCHANGED <<sseCallback, presence>>
            ELSE /\ sseCallback' = FALSE
                 /\ presence' = Broadcast(presence, <<ReplyingState(FALSE, NoConv)>>)
                 /\ pc' = "ended"
                 /\ UNCHANGED yielded
    /\ UNCHANGED <<turns, runExists, runAlive, convInput, conversationId, isNewConversation,
                   assistantContent, messageQueue, resolveWaiting,
                   titlePc, title, pushed, dropped, pushes, timeouts,
                   exitPath, iter, interrupted>>

\* lines 408-430 with lines 295-306 and 350-361: saveAssistantMessage swallows a
\* rejection of the store; `done` is yielded after it
SaveAssistantMessage ==
    /\ pc = "saving"
    /\ saveCalls' = saveCalls + 1
    /\ assistantEvents' =
         EventsAfterMerge(assistantEvents, 1,
                          [type |-> "none", content |-> <<>>, alias |-> 0])
    /\ \E outcome \in InternalOutcomes :
         /\ createMessageInternal(conversationId, "assistant",
                                  ContentOrPlaceholder(Join(assistantContent)),
                                  AssistantMessageId,
                                  mergeAdjacentTextEvents(assistantEvents), outcome)
         /\ saveOutcome' = outcome
    /\ yielded' = Append(yielded, DoneRecord(conversationId))
    /\ pc' = "atDone"
    /\ UNCHANGED <<turns, registryVars, convInput, conversationId, isNewConversation,
                   assistantContent, messageQueue, resolveWaiting,
                   titlePc, title, presence, pushed, dropped, pushes, timeouts,
                   exitPath, iter, interrupted>>

\* line 363
removeSSECallbacks == FALSE

\* lines 362-375: the finally block
Finally ==
    /\ sseCallback' = removeSSECallbacks
    /\ presence' = Broadcast(presence, <<ReplyingState(FALSE, NoConv)>>)
    /\ pc' = "ended"

\* Finish that hands the consumer what is left on the queue after `done`
FinishRelayingRest ==
    /\ pc = "atDone"
    /\ Finally
    /\ yielded' = yielded \o SelectSeq(messageQueue, LAMBDA m : m # Null)
    /\ UNCHANGED <<serviceVars, runExists, runAlive, convInput, conversationId,
                   isNewConversation, assistantContent, assistantEvents, messageQueue,
                   resolveWaiting, titlePc, title, histVars>>

\* lines 307 and 361: the generator returns after `done`
Finish ==
    /\ pc = "atDone"
    /\ Finally
    /\ UNCHANGED <<serviceVars, runExists, runAlive, convInput, conversationId,
                   isNewConversation, assistantContent, assistantEvents, messageQueue,
                   resolveWaiting, titlePc, title, yielded, histVars>>

\* Abandon without the finally block: the generator just stops
AbandonNoFinally ==
    /\ pc \in {"atEvent", "atHeartbeat"}
    /\ pc' = "ended"
    /\ exitPath' = "abandoned"
    /\ UNCHANGED <<serviceVars, registryVars, convInput, conversationId,
                   isNewConversation, assistantContent, assistantEvents, messageQueue,
                   resolveWaiting, titlePc, title, yielded, presence, pushed, dropped,
                   pushes, timeouts, saveCalls, saveOutcome, iter, interrupted>>

\* the consumer ends the stream at a yield inside the try block (return() or
\* throw() of the generator): control passes to the finally block
Abandon ==
    /\ pc \in {"atEvent", "atHeartbeat"}
    /\ Finally
    /\ exitPath' = "abandoned"
    /\ UNCHANGED <<serviceVars, runExists, runAlive, convInput, conversationId,
                   isNewConversation, assistantContent, assistantEvents, messageQueue,
                   resolveWaiting, titlePc, title, yielded, pushed, dropped, pushes,
                   timeouts, saveCalls, saveOutcome, iter, interrupted>>

\* the consumer ends the stream at `yield start`, before the try block
AbandonAtStart ==
    /\ pc = "atStart"
    /\ pc' = "ended"
    /\ exitPath' = "abandonedAtStart"
    /\ UNCHANGED <<serviceVars, registryVars, convInput, conversationId,
                   isNewConversation, assistantContent, assistantEvents, messageQueue,
                   resolveWaiting, titlePc, title, yielded, presence, pushed, dropped,
                   pushes, timeouts, saveCalls, saveOutcome, iter, interrupted>>

\* ------------------------------------------------------ title assignment

GeneratedTitle == <<"T">>
TitleOutcomes == {"ok", "noKey", "notOk", "empty", "threw"}

\* a fallback that truncates like the success path does
generateTitleLongFallback(userMessage, outcome) ==
    IF outcome = "ok" THEN Slice(GeneratedTitle, 20) ELSE Slice(userMessage, 20)

\* lines 23-75: generateTitle falls back to userMessage.slice(0, 10)
generateTitle(userMessage, outcome) ==
    IF outcome = "ok" THEN Slice(GeneratedTitle, 20) ELSE Slice(userMessage, 10)

\* GenerateAndUpdateTitle without its catch: a rejected commit reaches the generator
GenerateAndUpdateTitleThrowing ==
    /\ titlePc = "started"
    /\ \E completion \in TitleOutcomes, outcome \in {"ok", "updateFail", "cacheFail"} :
         /\ title' = [text |-> generateTitle(Message, completion),
                      fallback |-> completion # "ok", commit |-> outcome]
         /\ updateConversationTitleInternal(conversationId, title'.text, outcome)
         /\ IF outcome = "ok"
            THEN pushToSSEQueue(TitleEvent(title'.text))
            ELSE /\ pc' = "threw"
                 /\ UNCHANGED <<messageQueue, pushed, resolveWaiting, iter, dropped>>
    /\ titlePc' = "done"
    /\ UNCHANGED <<turns, registryVars, convInput, conversationId,
                   isNewConversation, assistantContent, assistantEvents, yielded,
                   presence, pushes, timeouts, saveCalls, saveOutcome, exitPath, interrupted>>

\* GenerateAndUpdateTitle that pushes the event without waiting for the commit
GenerateAndUpdateTitlePushingFirst ==
    /\ titlePc = "started"
    /\ \E completion \in TitleOutcomes, outcome \in {"ok", "updateFail", "cacheFail"} :
         /\ title' = [text |-> generateTitle(Message, completion),
                      fallback |-> completion # "ok", commit |-> outcome]
         /\ updateConversationTitleInternal(conversationId, title'.text, outcome)
         /\ pushToSSEQueue(TitleEvent(title'.text))
    /\ titlePc' = "done"
    /\ UNCHANGED <<turns, registryVars, convInput, conversationId,
                   isNewConversation, assistantContent, assistantEvents, yielded,
                   presence, pushes, timeouts, saveCalls, saveOutcome, exitPath, interrupted>>

\* lines 383-403: generate the title, commit it, then push title_generated; a
\* rejected commit is logged and nothing is pushed
GenerateAndUpdateTitle ==
    /\ titlePc = "started"
    /\ \E completion \in TitleOutcomes, outcome \in {"ok", "updateFail", "cacheFail"} :
         /\ title' = [text |-> generateTitle(Message, completion),
                      fallback |-> completion # "ok", commit |-> outcome]
         /\ updateConversationTitleInternal(conversationId, title'.text, outcome)
         /\ IF outcome = "ok"
            THEN pushToSSEQueue(TitleEvent(title'.text))
            ELSE UNCHANGED <<messageQueue, pushed, resolveWaiting, pc, iter, dropped>>
    /\ titlePc' = "done"
    /\ UNCHANGED <<turns, registryVars, convInput, conversationId,
                   isNewConversation, assistantContent, assistantEvents, yielded,
                   presence, pushes, timeouts, saveCalls, saveOutcome, exitPath, interrupted>>

\* ------------------------------------------------------ the worker's side

\* the worker posts an event for ReplyId
WorkerEmit ==
    /\ runAlive
    /\ pushes < MaxPush
    /\ pushes' = pushes + 1
    /\ \E e \in WorkerEvents : pushToSSEQueue(e)
    /\ UNCHANGED <<serviceVars, registryVars, convInput, conversationId,
                   isNewConversation, assistantContent, assistantEvents, titlePc,
                   title, yielded, presence, timeouts, saveCalls, saveOutcome, exitPath,
                   interrupted>>

\* the end signal (null) is pushed for ReplyId
PushSentinel ==
    /\ runExists
    /\ pushes < MaxPush
    /\ pushes' = pushes + 1
    /\ pushToSSEQueue(Null)
    /\ UNCHANGED <<serviceVars, registryVars, convInput, conversationId,
                   isNewConversation, assistantContent, assistantEvents, titlePc,
                   title, yielded, presence, timeouts, saveCalls, saveOutcome, exitPath,
                   interrupted>>

\* the worker process exits or crashes
WorkerExit ==
    /\ runAlive
    /\ runAlive' = FALSE
    /\ UNCHANGED <<serviceVars, runExists, sseCallback, turnVars, histVars>>

\* ------------------------------------------------------------ cancellation

\* terminateAgent(replyId): signal the process of a live run
terminateAgent == runExists /\ runAlive

\* InterruptAgent that announces the cancellation whether or not a run was signalled
InterruptAgentAlwaysBroadcasting ==
    /\ interrupted.result = "none"
    /\ IF terminateAgent
       THEN /\ runAlive' = FALSE
            /\ interrupted' = [result |-> "true", waits |-> 0,
                               heartbeats |-> Count(yielded, "heartbeat")]
       ELSE /\ interrupted' = [interrupted EXCEPT !.result = "false"]
            /\ UNCHANGED runAlive
    /\ presence' = Broadcast(presence, <<ReplyingState(FALSE, NoConv), Cancelled>>)
    /\ UNCHANGED <<serviceVars, runExists, sseCallback, convInput, pc, conversationId,
                   isNewConversation, assistantContent, assistantEvents, messageQueue,
                   resolveWaiting, titlePc, title, yielded, pushed, dropped, pushes,
                   timeouts, saveCalls, saveOutcome, exitPath, iter>>

\* lines 448-467
InterruptAgent ==
    /\ interrupted.result = "none"
    /\ IF terminateAgent
       THEN /\ runAlive' = FALSE
            /\ interrupted' = [result |-> "true", waits |-> 0,
                               heartbeats |-> Count(yielded, "heartbeat")]
            /\ presence' = Broadcast(presence, <<ReplyingState(FALSE, NoConv), Cancelled>>)
       ELSE /\ interrupted' = [interrupted EXCEPT !.result = "false"]
            /\ UNCHANGED <<runAlive, presence>>
    /\ UNCHANGED <<serviceVars, runExists, sseCallback, convInput, pc, conversationId,
                   isNewConversation, assistantContent, assistantEvents, messageQueue,
                   resolveWaiting, titlePc, title, yielded, pushed, dropped, pushes,
                   timeouts, saveCalls, saveOutcome, exitPath, iter>>

\* --------------------------------------------------------- specification

Next ==
    \/ CreateConversation
    \/ SaveUserMessage
    \/ BroadcastAndYieldStart
    \/ SpawnAgent
    \/ RegisterCallback
    \/ WaitTimeout
    \/ ResumeAfterPush
    \/ ResumeAfterEvent
    \/ ResumeAfterHeartbeat
    \/ SaveAssistantMessage
    \/ Finish
    \/ Abandon
    \/ AbandonAtStart
    \/ GenerateAndUpdateTitle
    \/ WorkerEmit
    \/ PushSentinel
    \/ WorkerExit
    \/ InterruptAgent

Spec == Init /\ [][Next]_vars

\* ------------------------------------------------- the turn on an idle run
\* The turn with a worker that, once started, neither pushes nor exits, no
\* cancellation, and a consumer that keeps asking for the next record.  The
\* timer of a wait fires, an awaited promise that is resolved is continued and
\* the consumer reads on: every step that can be taken is eventually taken.

IdleTimeout == WaitTimeoutWithin(MaxIdleTimeouts)

NextIdle ==
    \/ CreateConversation
    \/ SaveUserMessage
    \/ BroadcastAndYieldStart
    \/ SpawnAgent
    \/ RegisterCallback
    \/ IdleTimeout
    \/ ResumeAfterPush
    \/ ResumeAfterEvent
    \/ ResumeAfterHeartbeat
    \/ SaveAssistantMessage
    \/ Finish
    \/ GenerateAndUpdateTitle

SpecIdle == Init /\ [][NextIdle]_vars /\ WF_vars(NextIdle)

\* ---------------------------------- conversation service, call by call
\* Concurrent calls of the service on conversation ExistingConv, each advanced
\* one store or cache operation (one await) at a time.
\*   listMessages:   findUnique, hget, findMany, hset, expire
\*   createMessage:  findUnique, create, update, del (messages), del (conversations)
\*   createMessageInternal, createMessageWithMetadataInternal:
\*                   create, update, del (messages)
\*   listConversations:  hget, findMany, hset, expire
\*   getConversation:    findUnique
\*   updateConversation: findUnique, update (title), del (conversations)
\*   deleteConversation: findUnique, delete, del (conversations), del (messages)
\*   getConversationPlan: findUnique, getPlan

ListOps == {"listMessages"}
CheckedOps == {"listMessages", "createMessage", "getConversation",
               "updateConversation", "deleteConversation", "getConversationPlan"}
\* the operations on messages and the conversation list that go through the cache
CachedOps == {"listMessages", "listConversations", "createMessage",
              "createMessageInternal", "createMessageWithMetadataInternal"}
WriteOps == {"createMessage", "createMessageInternal",
             "createMessageWithMetadataInternal"}

\* messages.map(formatMessage) over findMany's take/skip: the ids of one page
Page(rows, tag) ==
    LET limit == tag[1]
        offset == tag[2]
        page == SubSeq(rows, offset + 1, Min(offset + limit, Len(rows)))
    IN [i \in 1..Len(page) |-> page[i].id]

RowsOf(conv) == SelectSeq(messages, LAMBDA m : m.conversationId = conv)

\* the rows of a conversation whose creating call has returned, at this moment
ReturnedWrites ==
    {calls[j].msgIndex : j \in {k \in Calls : calls[k].op \in WriteOps
                                              /\ calls[k].pc = "returned"}}
Max(S) == IF S = {} THEN 0 ELSE CHOOSE x \in S : \A y \in S : y <= x

\* the rows of prisma.conversation.findMany({where: {userId}, orderBy: {updatedAt:
\* 'desc'}}) with _count, formatted
ConversationRows(userId) ==
    LET owned == {c \in DOMAIN conversations : conversations[c].userId = userId}
        Row(c) == [id |-> c, title |-> conversations[c].title,
                   updatedAt |-> conversations[c].updatedAt,
                   messageCount |-> Len(RowsOf(c))]
        latest == CHOOSE c \in owned :
                      /\ \A d \in owned : conversations[c].updatedAt >= conversations[d].updatedAt
                      /\ ExistingConv \in owned
                           /\ conversations[ExistingConv].updatedAt = conversations[c].updatedAt
                           => c = ExistingConv
    IN IF owned = {} THEN <<>>
       ELSE <<Row(latest)>> \o [k \in 1..Cardinality(owned \ {latest}) |->
                                   Row(CHOOSE c \in owned : c # latest)]

\* take/skip over the conversation rows
ConversationsPage(rows, tag) ==
    SubSeq(rows, tag[2] + 1, Min(tag[2] + tag[1], Len(rows)))

\* the first await of an operation
FirstPc(op) ==
    IF op \in CheckedOps THEN "findUnique"
    ELSE IF op = "listConversations" THEN "hgetConversations"
    ELSE "create"

\* a caller invokes one of the operations ops of the service
StartCall(i, ops) ==
    /\ calls[i].pc = "idle"
    /\ i > 1 => calls[i - 1].pc # "idle"
    /\ \E op \in ops, user \in {User, OtherUser}, tag \in PageTags :
         /\ op \notin CheckedOps => user = User
         /\ op \notin ListOps \cup {"listConversations"} => tag = <<100, 0>>
         /\ calls' = [calls EXCEPT ![i] =
                        [IdleCall EXCEPT !.op = op, !.user = user, !.tag = tag,
                                         !.pc = FirstPc(op),
                                         !.mustSee = Max(ReturnedWrites)]]
    /\ UNCHANGED <<conversations, messages, messagesCache, messagesCacheTTL,
                   conversationsCache, conversationsCacheTTL, now, socketReady,
                   registryVars, turnVars, histVars, chat, child, turns>>

\* what an operation does once the access check has passed
AfterAccessCheck(call) ==
    CASE call.op = "listMessages" -> [call EXCEPT !.pc = "hget"]
      [] call.op = "createMessage" -> [call EXCEPT !.pc = "create"]
      [] call.op = "updateConversation" -> [call EXCEPT !.pc = "updateTitle"]
      [] call.op = "deleteConversation" -> [call EXCEPT !.pc = "delete"]
      [] call.op = "getConversationPlan" -> [call EXCEPT !.pc = "getPlan"]
      [] call.op = "getConversation" ->
            [call EXCEPT !.pc = "returned",
                         !.result = ConversationRows(call.user)]

\* an access check that looks only for the conversation, not for its owner
FindUniqueAnyOwner(i) ==
    /\ calls[i].pc = "findUnique"
    /\ calls' = [calls EXCEPT ![i] =
                   IF ExistingConv \notin DOMAIN conversations
                   THEN [@ EXCEPT !.pc = "threw", !.error = "NotFound"]
                   ELSE AfterAccessCheck(calls[i])]
    /\ UNCHANGED <<conversations, messages, messagesCache, messagesCacheTTL,
                   conversationsCache, conversationsCacheTTL, now, socketReady,
                   registryVars, turnVars, histVars, chat, child, turns>>

\* lines 86-97, 105-114, 129-138, 158-167, 195-204 and 340-349: the access check
FindUnique(i) ==
    /\ calls[i].pc = "findUnique"
    /\ calls' = [calls EXCEPT ![i] =
                   IF ExistingConv \notin DOMAIN conversations
                   THEN [@ EXCEPT !.pc = "threw", !.error = "NotFound"]
                   ELSE IF conversations[ExistingConv].userId # calls[i].user
                   THEN [@ EXCEPT !.pc = "threw", !.error = "Forbidden"]
                   ELSE AfterAccessCheck(calls[i])]
    /\ UNCHANGED <<conversations, messages, messagesCache, messagesCacheTTL,
                   conversationsCache, conversationsCacheTTL, now, socketReady,
                   registryVars, turnVars, histVars, chat, child, turns>>

\* lines 206-216: a cached page is returned; a miss or a rejected hget goes on
HGet(i) ==
    /\ calls[i].pc = "hget"
    /\ \E ok \in BOOLEAN :
         calls' = [calls EXCEPT ![i] =
                     IF ok /\ calls[i].tag \in DOMAIN messagesCache[ExistingConv]
                     THEN [@ EXCEPT !.pc = "returned",
                                    !.result = messagesCache[ExistingConv][calls[i].tag]]
                     ELSE [@ EXCEPT !.pc = "findMany"]]
    /\ UNCHANGED <<conversations, messages, messagesCache, messagesCacheTTL,
                   conversationsCache, conversationsCacheTTL, now, socketReady,
                   registryVars, turnVars, histVars, chat, child, turns>>

\* lines 218-225
FindMany(i) ==
    /\ calls[i].pc = "findMany"
    /\ calls' = [calls EXCEPT ![i] =
                   [@ EXCEPT !.pc = "hset",
                             !.result = Page(RowsOf(ExistingConv), calls[i].tag)]]
    /\ UNCHANGED <<conversations, messages, messagesCache, messagesCacheTTL,
                   conversationsCache, conversationsCacheTTL, now, socketReady,
                   registryVars, turnVars, histVars, chat, child, turns>>

\* line 229: a rejected hset skips the expire
HSet(i) ==
    /\ calls[i].pc = "hset"
    /\ \E ok \in BOOLEAN :
         IF ok
         THEN /\ messagesCache' =
                   [messagesCache EXCEPT ![ExistingConv] =
                       [t \in DOMAIN @ \cup {calls[i].tag} |->
                           IF t = calls[i].tag THEN calls[i].result ELSE @[t]]]
              /\ calls' = [calls EXCEPT ![i].pc = "expire"]
         ELSE /\ calls' = [calls EXCEPT ![i].pc = "returned"]
              /\ UNCHANGED messagesCache
    /\ UNCHANGED <<conversations, messages, messagesCacheTTL, conversationsCache,
                   conversationsCacheTTL, now, socketReady, registryVars, turnVars,
                   histVars, chat, child, turns>>

\* line 230: expire sets the time-to-live of the hash, if the hash is there
Expire(i) ==
    /\ calls[i].pc = "expire"
    /\ \E ok \in BOOLEAN :
         messagesCacheTTL' =
           IF ok /\ messagesCache[ExistingConv] # NoPages
           THEN [messagesCacheTTL EXCEPT ![ExistingConv] = TRUE]
           ELSE messagesCacheTTL
    /\ calls' = [calls EXCEPT ![i].pc = "returned"]
    /\ UNCHANGED <<conversations, messages, messagesCache, conversationsCache,
                   conversationsCacheTTL, now, socketReady, registryVars, turnVars,
                   histVars, chat, child, turns>>

\* lines 169-171, 249-256, 280-288: message.create
CreateRow(i) ==
    /\ calls[i].pc = "create"
    /\ \E ok \in BOOLEAN :
         IF ok /\ ExistingConv \in DOMAIN conversations
         THEN /\ messages' = Append(messages,
                    [id |-> i, conversationId |-> ExistingConv, role |-> "user",
                     content |-> Message, metadata |-> <<>>])
              /\ calls' = [calls EXCEPT ![i].pc = "update",
                                        ![i].msgIndex = Len(RowsOf(ExistingConv)) + 1]
         ELSE /\ calls' = [calls EXCEPT ![i].pc = "threw", ![i].error = "rejected"]
              /\ UNCHANGED messages
    /\ UNCHANGED <<conversations, messagesCache, messagesCacheTTL, conversationsCache,
                   conversationsCacheTTL, now, socketReady, registryVars, turnVars,
                   histVars, chat, child, turns>>

\* lines 174-177, 258-261, 290-293: conversation.update({updatedAt: new Date()})
TouchConversation(i) ==
    /\ calls[i].pc = "update"
    /\ now' = now + 1
    /\ \E ok \in BOOLEAN :
         IF ok /\ ExistingConv \in DOMAIN conversations
         THEN /\ conversations' = [conversations EXCEPT ![ExistingConv].updatedAt = now + 1]
              /\ calls' = [calls EXCEPT ![i].pc = "delMessages"]
         ELSE /\ calls' = [calls EXCEPT ![i].pc = "threw", ![i].error = "rejected"]
              /\ UNCHANGED conversations
    /\ UNCHANGED <<messages, messagesCache, messagesCacheTTL, conversationsCache,
                   conversationsCacheTTL, socketReady, registryVars, turnVars, histVars, chat, child, turns>>

\* an invalidation that deletes the default page only
DelDefaultPageOnly(i) ==
    /\ calls[i].pc = "delMessages"
    /\ messagesCache' =
         [messagesCache EXCEPT ![ExistingConv] =
             [t \in DOMAIN @ \ {<<100, 0>>} |-> @[t]]]
    /\ calls' = [calls EXCEPT ![i].pc =
                    IF calls[i].op = "createMessage" THEN "delConversations"
                    ELSE "returned",
                 ![i].cleared = Cardinality(DOMAIN messagesCache[ExistingConv])]
    /\ UNCHANGED <<conversations, messages, messagesCacheTTL, conversationsCache,
                   conversationsCacheTTL, now, socketReady, registryVars, turnVars,
                   histVars, chat, child, turns>>

\* lines 26-29 with 143, 179, 263, 295: invalidateMessagesCache deletes the hash
\* with all its page tags; a rejected del is not caught
DelMessagesCache(i) ==
    /\ calls[i].pc = "delMessages"
    /\ \E ok \in BOOLEAN :
         IF ok
         THEN /\ messagesCache' = [messagesCache EXCEPT ![ExistingConv] = NoPages]
              /\ messagesCacheTTL' = [messagesCacheTTL EXCEPT ![ExistingConv] = FALSE]
              /\ calls' = [calls EXCEPT ![i].pc =
                              IF calls[i].op = "createMessage" THEN "delConversations"
                              ELSE "returned",
                           ![i].cleared = Cardinality(DOMAIN messagesCache[ExistingConv])]
         ELSE /\ calls' = [calls EXCEPT ![i].pc = "threw", ![i].error = "cache"]
              /\ UNCHANGED <<messagesCache, messagesCacheTTL>>
    /\ UNCHANGED <<conversations, messages, conversationsCache, conversationsCacheTTL,
                   now, socketReady, registryVars, turnVars, histVars, chat, child, turns>>

\* lines 21-24 with 121, 142, 180: invalidateConversationsCache; a rejected del
\* is not caught
DelConversationsCache(i) ==
    /\ calls[i].pc = "delConversations"
    /\ \E ok \in BOOLEAN :
         IF ok
         THEN /\ conversationsCache' = NoPages
              /\ conversationsCacheTTL' = FALSE
              /\ calls' = [calls EXCEPT ![i].pc =
                              IF calls[i].op = "deleteConversation" THEN "delMessages"
                              ELSE "returned"]
         ELSE /\ calls' = [calls EXCEPT ![i].pc = "threw", ![i].error = "cache"]
              /\ UNCHANGED <<conversationsCache, conversationsCacheTTL>>
    /\ UNCHANGED <<conversations, messages, messagesCache, messagesCacheTTL, now,
                   socketReady, registryVars, turnVars, histVars, chat, child, turns>>

\* lines 53-60: a cached page of the conversation list is returned; a miss or a
\* rejected hget goes on
HGetConversations(i) ==
    /\ calls[i].pc = "hgetConversations"
    /\ \E ok \in BOOLEAN :
         calls' = [calls EXCEPT ![i] =
                     IF ok /\ calls[i].tag \in DOMAIN conversationsCache
                     THEN [@ EXCEPT !.pc = "returned",
                                    !.result = conversationsCache[calls[i].tag]]
                     ELSE [@ EXCEPT !.pc = "findManyConversations"]]
    /\ UNCHANGED <<conversations, messages, messagesCache, messagesCacheTTL,
                   conversationsCache, conversationsCacheTTL, now, socketReady,
                   registryVars, turnVars, histVars, chat, child, turns>>

\* lines 62-70
FindManyConversations(i) ==
    /\ calls[i].pc = "findManyConversations"
    /\ calls' = [calls EXCEPT ![i] =
                   [@ EXCEPT !.pc = "hsetConversations",
                             !.result = ConversationsPage(ConversationRows(calls[i].user),
                                                          calls[i].tag)]]
    /\ UNCHANGED <<conversations, messages, messagesCache, messagesCacheTTL,
                   conversationsCache, conversationsCacheTTL, now, socketReady,
                   registryVars, turnVars, histVars, chat, child, turns>>

\* lines 73-80: hset, then expire; a rejection of either is swallowed
HSetConversations(i) ==
    /\ calls[i].pc = "hsetConversations"
    /\ \E ok \in BOOLEAN :
         IF ok
         THEN /\ conversationsCache' =
                   [t \in DOMAIN conversationsCache \cup {calls[i].tag} |->
                       IF t = calls[i].tag THEN calls[i].result
                       ELSE conversationsCache[t]]
              /\ calls' = [calls EXCEPT ![i].pc = "expireConversations"]
         ELSE /\ calls' = [calls EXCEPT ![i].pc = "returned"]
              /\ UNCHANGED conversationsCache
    /\ UNCHANGED <<conversations, messages, messagesCache, messagesCacheTTL,
                   conversationsCacheTTL, now, socketReady, registryVars, turnVars,
                   histVars, chat, child, turns>>

\* line 75
ExpireConversations(i) ==
    /\ calls[i].pc = "expireConversations"
    /\ \E ok \in BOOLEAN :
         conversationsCacheTTL' =
           IF ok /\ conversationsCache # NoPages THEN TRUE ELSE conversationsCacheTTL
    /\ calls' = [calls EXCEPT ![i].pc = "returned"]
    /\ UNCHANGED <<conversations, messages, messagesCache, messagesCacheTTL,
                   conversationsCache, now, socketReady, registryVars, turnVars,
                   histVars, chat, child, turns>>

NewTitle == <<"n">>

\* lines 116-119: conversation.update({title})
UpdateTitle(i) ==
    /\ calls[i].pc = "updateTitle"
    /\ \E ok \in BOOLEAN :
         IF ok /\ ExistingConv \in DOMAIN conversations
         THEN /\ conversations' = [conversations EXCEPT ![ExistingConv].title = NewTitle]
              /\ calls' = [calls EXCEPT ![i].pc = "delConversations"]
         ELSE /\ calls' = [calls EXCEPT ![i].pc = "threw", ![i].error = "rejected"]
              /\ UNCHANGED conversations
    /\ UNCHANGED <<messages, messagesCache, messagesCacheTTL, conversationsCache,
                   conversationsCacheTTL, now, socketReady, registryVars, turnVars,
                   histVars, chat, child, turns>>

\* line 140: conversation.delete; the schema cascades to the conversation's messages
DeleteConversationRow(i) ==
    /\ calls[i].pc = "delete"
    /\ \E ok \in BOOLEAN :
         IF ok /\ ExistingConv \in DOMAIN conversations
         THEN /\ conversations' = [c \in DOMAIN conversations \ {ExistingConv} |->
                                      conversations[c]]
              /\ messages' = SelectSeq(messages,
                                       LAMBDA m : m.conversationId # ExistingConv)
              /\ calls' = [calls EXCEPT ![i].pc = "delConversations"]
         ELSE /\ calls' = [calls EXCEPT ![i].pc = "threw", ![i].error = "rejected"]
              /\ UNCHANGED <<conversations, messages>>
    /\ UNCHANGED <<messagesCache, messagesCacheTTL, conversationsCache,
                   conversationsCacheTTL, now, socketReady, registryVars, turnVars,
                   histVars, chat, child, turns>>

\* line 351: planService.getPlan reads the plan; it touches neither the
\* conversations nor the cache
GetPlan(i) ==
    /\ calls[i].pc = "getPlan"
    /\ \E ok \in BOOLEAN :
         calls' = [calls EXCEPT ![i] =
                     IF ok THEN [@ EXCEPT !.pc = "returned"]
                     ELSE [@ EXCEPT !.pc = "threw", !.error = "rejected"]]
    /\ UNCHANGED <<conversations, messages, messagesCache, messagesCacheTTL,
                   conversationsCache, conversationsCacheTTL, now, socketReady,
                   registryVars, turnVars, histVars, chat, child, turns>>

\* the time-to-live of the message-list hash runs out
MessagesCacheExpires ==
    /\ messagesCacheTTL[ExistingConv]
    /\ messagesCache' = [messagesCache EXCEPT ![ExistingConv] = NoPages]
    /\ messagesCacheTTL' = [messagesCacheTTL EXCEPT ![ExistingConv] = FALSE]
    /\ UNCHANGED <<conversations, messages, conversationsCache, conversationsCacheTTL,
                   now, socketReady, calls, registryVars, turnVars, histVars, chat, child, turns>>

InitService ==
    /\ Init
    /\ convInput = ExistingConv
    /\ socketReady

\* the time-to-live of the conversation-list hash runs out
ConversationsCacheExpires ==
    /\ conversationsCacheTTL
    /\ conversationsCache' = NoPages
    /\ conversationsCacheTTL' = FALSE
    /\ UNCHANGED <<conversations, messages, messagesCache, messagesCacheTTL,
                   now, socketReady, calls, registryVars, turnVars, histVars, chat, child, turns>>

NextService ==
    \/ \E i \in Calls : StartCall(i, CachedOps)
    \/ \E i \in Calls : FindUnique(i)
    \/ \E i \in Calls : HGet(i)
    \/ \E i \in Calls : FindMany(i)
    \/ \E i \in Calls : HSet(i)
    \/ \E i \in Calls : Expire(i)
    \/ \E i \in Calls : CreateRow(i)
    \/ \E i \in Calls : TouchConversation(i)
    \/ \E i \in Calls : DelMessagesCache(i)
    \/ \E i \in Calls : DelConversationsCache(i)
    \/ \E i \in Calls : HGetConversations(i)
    \/ \E i \in Calls : FindManyConversations(i)
    \/ \E i \in Calls : HSetConversations(i)
    \/ \E i \in Calls : ExpireConversations(i)
    \/ MessagesCacheExpires
    \/ ConversationsCacheExpires

SpecService == InitService /\ [][NextService]_vars

\* the operations that check the caller's access to the conversation first
NextAccess ==
    \/ \E i \in Calls : StartCall(i, CheckedOps)
    \/ \E i \in Calls : FindUnique(i)
    \/ \E i \in Calls : HGet(i)
    \/ \E i \in Calls : FindMany(i)
    \/ \E i \in Calls : HSet(i)
    \/ \E i \in Calls : Expire(i)
    \/ \E i \in Calls : CreateRow(i)
    \/ \E i \in Calls : TouchConversation(i)
    \/ \E i \in Calls : UpdateTitle(i)
    \/ \E i \in Calls : DeleteConversationRow(i)
    \/ \E i \in Calls : GetPlan(i)
    \/ \E i \in Calls : DelMessagesCache(i)
    \/ \E i \in Calls : DelConversationsCache(i)
    \/ MessagesCacheExpires

SpecAccess == InitService /\ [][NextAccess]_vars

\* deleteConversation next to the reads of the two cached lists and the
\* internal write of a message
NextDelete ==
    \/ \E i \in Calls : StartCall(i, {"deleteConversation", "listConversations",
                                       "listMessages", "createMessageInternal"})
    \/ \E i \in Calls : FindUnique(i)
    \/ \E i \in Calls : HGet(i)
    \/ \E i \in Calls : FindMany(i)
    \/ \E i \in Calls : HSet(i)
    \/ \E i \in Calls : Expire(i)
    \/ \E i \in Calls : CreateRow(i)
    \/ \E i \in Calls : TouchConversation(i)
    \/ \E i \in Calls : DeleteConversationRow(i)
    \/ \E i \in Calls : DelConversationsCache(i)
    \/ \E i \in Calls : DelMessagesCache(i)
    \/ \E i \in Calls : HGetConversations(i)
    \/ \E i \in Calls : FindManyConversations(i)
    \/ \E i \in Calls : HSetConversations(i)
    \/ \E i \in Calls : ExpireConversations(i)

SpecDelete == InitService /\ [][NextDelete]_vars

\* ------------------------------ the turn next to reads of the conversation list
\* The turn on a new conversation, with listConversations calls of the same
\* user running beside it, one await per step, so that the conversation-list
\* hash holds pages when the title is committed.

InitTitle ==
    /\ Init
    /\ convInput = NoConv
    /\ socketReady

NextTitle ==
    \/ CreateConversation
    \/ SaveUserMessage
    \/ BroadcastAndYieldStart
    \/ SpawnAgent
    \/ RegisterCallback
    \/ WaitTimeout
    \/ ResumeAfterPush
    \/ ResumeAfterEvent
    \/ ResumeAfterHeartbeat
    \/ SaveAssistantMessage
    \/ Finish
    \/ GenerateAndUpdateTitle
    \/ WorkerExit
    \/ \E i \in 1..MaxListCalls : StartCall(i, {"listConversations"})
    \/ \E i \in 1..MaxListCalls : HGetConversations(i)
    \/ \E i \in 1..MaxListCalls : FindManyConversations(i)
    \/ \E i \in 1..MaxListCalls : HSetConversations(i)
    \/ \E i \in 1..MaxListCalls : ExpireConversations(i)

SpecTitle == InitTitle /\ [][NextTitle]_vars

\* ------------------------------------------------- several turns side by side
\* sendMessageStreaming called several times on conversation ExistingConv while
\* earlier calls are still streaming, and interruptAgent for any of the runs.
\* Each turn has its own reply id and message ids; the workers push no events.
\* The store, the socket manager and the presence signals are shared.
\*   begin     not yet started
\*   launching the user message is saved, the replying=true broadcast is next
\*   relaying  in the relay loop (lines 276-347)
\*   saving    the loop is left, awaiting saveAssistantMessage
\*   atDone    suspended at `yield done`
\*   ended     the finally block has run
\*   threw     rejected by the save of the user message

\* lines 176-178: replyId, userMessageId and assistantMessageId of each turn
TurnIds ==
    << [reply |-> ReplyId, user |-> UserMessageId, assistant |-> AssistantMessageId],
       [reply |-> "r2", user |-> "m-user-2", assistant |-> "m-assistant-2"],
       [reply |-> "r3", user |-> "m-user-3", assistant |-> "m-assistant-3"] >>

\* lines 159-185: the conversation is given; save the user message
TurnSaveUserMessage(t) ==
    /\ turns[t].pc = "begin"
    /\ t > 1 => turns[t - 1].pc # "begin"
    /\ \E outcome \in InternalOutcomes :
         /\ createMessageInternal(ExistingConv, "user", Message, TurnIds[t].user,
                                  <<>>, outcome)
         /\ turns' = [turns EXCEPT ![t].pc = IF outcome = "ok" THEN "launching"
                                             ELSE "threw"]
    /\ UNCHANGED <<registryVars, turnVars, histVars>>

\* lines 187-287: broadcast replying=true for the conversation, yield start,
\* launch the worker (which may fail to start), register the callback and
\* enter the loop
TurnBroadcastAndLaunch(t) ==
    /\ turns[t].pc = "launching"
    /\ presence' = Broadcast(presence, <<ReplyingState(TRUE, ExistingConv)>>)
    /\ \E alive \in BOOLEAN :
         turns' = [turns EXCEPT ![t].pc = "relaying", ![t].alive = alive]
    /\ UNCHANGED <<conversations, messages, messagesCache, messagesCacheTTL,
                   conversationsCache, conversationsCacheTTL, now, socketReady, calls,
                   chat, child, registryVars, convInput, pc, conversationId,
                   isNewConversation, assistantContent, assistantEvents, messageQueue,
                   resolveWaiting, titlePc, title, yielded, histVars>>

\* the worker of a turn exits or crashes
TurnWorkerExit(t) ==
    /\ turns[t].pc = "relaying"
    /\ turns[t].alive
    /\ turns' = [turns EXCEPT ![t].alive = FALSE]
    /\ UNCHANGED <<conversations, messages, messagesCache, messagesCacheTTL,
                   conversationsCache, conversationsCacheTTL, now, socketReady, calls,
                   chat, child, registryVars, turnVars, histVars>>

\* lines 293 and 339-340: the loop is left, by the end signal or because the
\* run is found not alive when a wait has timed out
TurnLeavesLoop(t) ==
    /\ turns[t].pc = "relaying"
    /\ turns' = [turns EXCEPT ![t].pc = "saving"]
    /\ UNCHANGED <<conversations, messages, messagesCache, messagesCacheTTL,
                   conversationsCache, conversationsCacheTTL, now, socketReady, calls,
                   chat, child, registryVars, turnVars, histVars>>

\* lines 295-306 and 350-361: save the assistant message (nothing was relayed,
\* so the placeholder), a rejection swallowed, and yield done
TurnSaveAssistantMessage(t) ==
    /\ turns[t].pc = "saving"
    /\ \E outcome \in InternalOutcomes :
         createMessageInternal(ExistingConv, "assistant", ContentOrPlaceholder(<<>>),
                               TurnIds[t].assistant, mergeAdjacentTextEvents(<<>>),
                               outcome)
    /\ turns' = [turns EXCEPT ![t].pc = "atDone"]
    /\ UNCHANGED <<registryVars, turnVars, histVars>>

\* lines 362-375: the finally block, after `done` or when the consumer ends the
\* stream at a heartbeat: replying=false with no conversation id
TurnFinally(t) ==
    /\ turns[t].pc \in {"relaying", "atDone"}
    /\ presence' = Broadcast(presence, <<ReplyingState(FALSE, NoConv)>>)
    /\ turns' = [turns EXCEPT ![t].pc = "ended"]
    /\ UNCHANGED <<conversations, messages, messagesCache, messagesCacheTTL,
                   conversationsCache, conversationsCacheTTL, now, socketReady, calls,
                   chat, child, registryVars, convInput, pc, conversationId,
                   isNewConversation, assistantContent, assistantEvents, messageQueue,
                   resolveWaiting, titlePc, title, yielded, histVars>>

\* lines 448-467: interruptAgent(replyId) for the run of turn t
TurnInterruptAgent(t) ==
    /\ turns[t].interrupted = "none"
    /\ IF turns[t].pc \in {"relaying", "saving", "atDone", "ended"} /\ turns[t].alive
       THEN /\ turns' = [turns EXCEPT ![t].alive = FALSE, ![t].interrupted = "true"]
            /\ presence' = Broadcast(presence,
                              <<ReplyingState(FALSE, NoConv),
                                [signal |-> "cancelled", replying |-> FALSE,
                                 conv |-> TurnIds[t].reply]>>)
       ELSE /\ turns' = [turns EXCEPT ![t].interrupted = "false"]
            /\ UNCHANGED presence
    /\ UNCHANGED <<conversations, messages, messagesCache, messagesCacheTTL,
                   conversationsCache, conversationsCacheTTL, now, socketReady, calls,
                   chat, child, registryVars, convInput, pc, conversationId,
                   isNewConversation, assistantContent, assistantEvents, messageQueue,
                   resolveWaiting, titlePc, title, yielded, histVars>>

NextTurns ==
    \/ \E t \in Turns : TurnSaveUserMessage(t)
    \/ \E t \in Turns : TurnBroadcastAndLaunch(t)
    \/ \E t \in Turns : TurnWorkerExit(t)
    \/ \E t \in Turns : TurnLeavesLoop(t)
    \/ \E t \in Turns : TurnSaveAssistantMessage(t)
    \/ \E t \in Turns : TurnFinally(t)
    \/ \E t \in Turns : TurnInterruptAgent(t)

SpecTurns == InitService /\ [][NextTurns]_vars

\* ------------------------------------------ the client's chat store
\* frontend/src/stores/chat.js: loadConversations and updateConversationTitle.
\* A load is in flight between the call of api.listConversations and its
\* answer; the store's functions run to completion in between.

\* the titles the server pushes in title_generated events
QueuedTitles == {<<"T">>, <<"U">>}
\* the title a listed conversation comes with
ListedTitle == <<"o">>
\* the lists api.listConversations may answer with
ServerLists ==
    { <<>>,
      <<[conversation_id |-> ExistingConv, title |-> ListedTitle]>>,
      <<[conversation_id |-> NewConv, title |-> ListedTitle],
        [conversation_id |-> ExistingConv, title |-> ListedTitle]>> }

ListedIds(list) == {list[k].conversation_id : k \in 1..Len(list)}
TitleIn(list, id) ==
    list[CHOOSE k \in 1..Len(list) : list[k].conversation_id = id].title
\* pending[c.conversation_id] ? ... : a queued, non-empty title
Truthy(pending, id) == id \in DOMAIN pending /\ pending[id] # <<>>

\* lines 65-67: loadConversations calls api.listConversations and awaits
LoadConversationsStart ==
    /\ chat.started < MaxLoads
    /\ chat' = [chat EXCEPT !.inflight = @ + 1, !.started = @ + 1]
    /\ UNCHANGED <<conversations, messages, messagesCache, messagesCacheTTL,
                   conversationsCache, conversationsCacheTTL, now, socketReady, calls,
                   registryVars, turnVars, histVars, child, turns>>

\* a load that replaces the list and forgets the queued titles
LoadConversationsForgetting(data) ==
    /\ chat.inflight > 0
    /\ chat' = [chat EXCEPT !.inflight = @ - 1,
                            !.stale = IF @ > 0 THEN @ - 1 ELSE 0,
                            !.completed = @ + 1,
                            !.conversations = data,
                            !.pendingTitleUpdates = NoTitles,
                            !.owed = [id \in DOMAIN @ \ ListedIds(data) |-> @[id]]]
    /\ UNCHANGED <<conversations, messages, messagesCache, messagesCacheTTL,
                   conversationsCache, conversationsCacheTTL, now, socketReady, calls,
                   registryVars, turnVars, histVars, child, turns>>

\* lines 68-76: the answer arrives: the list is replaced, the queue is emptied
\* and the titles that were queued are put on the listed conversations
LoadConversationsCompletes(data) ==
    /\ chat.inflight > 0
    /\ LET pending == chat.pendingTitleUpdates
       IN chat' = [chat EXCEPT
             !.inflight = @ - 1,
             !.stale = IF @ > 0 THEN @ - 1 ELSE 0,
             !.completed = @ + 1,
             !.conversations =
                 IF DOMAIN pending # {}
                 THEN [k \in 1..Len(data) |->
                          IF Truthy(pending, data[k].conversation_id)
                          THEN [data[k] EXCEPT !.title = pending[data[k].conversation_id]]
                          ELSE data[k]]
                 ELSE data,
             !.pendingTitleUpdates = NoTitles,
             !.owed = [id \in DOMAIN @ \ ListedIds(data) |-> @[id]],
             !.applied = IF \E id \in ListedIds(data) : Truthy(pending, id)
                         THEN @ + 1 ELSE @]
    /\ UNCHANGED <<conversations, messages, messagesCache, messagesCacheTTL,
                   conversationsCache, conversationsCacheTTL, now, socketReady, calls,
                   registryVars, turnVars, histVars, child, turns>>

\* lines 77-79: the request fails; the error is logged, the store is left as it is
LoadConversationsFails ==
    /\ chat.inflight > 0
    /\ chat' = [chat EXCEPT !.inflight = @ - 1,
                            !.stale = IF @ > 0 THEN @ - 1 ELSE 0]
    /\ UNCHANGED <<conversations, messages, messagesCache, messagesCacheTTL,
                   conversationsCache, conversationsCacheTTL, now, socketReady, calls,
                   registryVars, turnVars, histVars, child, turns>>

\* lines 107-117
updateConversationTitle(conversationId_, title_) ==
    /\ LET found == conversationId_ \in ListedIds(chat.conversations)
       IN IF found
          THEN chat' = [chat EXCEPT
                          !.conversations =
                              [k \in 1..Len(@) |->
                                  IF @[k].conversation_id = conversationId_
                                  THEN [@[k] EXCEPT !.title = title_] ELSE @[k]],
                          !.titled = [id |-> conversationId_, title |-> title_],
                          !.stale = chat.inflight]
          ELSE chat' = [chat EXCEPT
                          !.pendingTitleUpdates =
                              [id \in DOMAIN @ \cup {conversationId_} |->
                                  IF id = conversationId_ THEN title_ ELSE @[id]],
                          !.owed =
                              [id \in DOMAIN @ \cup {conversationId_} |->
                                  IF id = conversationId_ THEN title_ ELSE @[id]]]
    /\ UNCHANGED <<conversations, messages, messagesCache, messagesCacheTTL,
                   conversationsCache, conversationsCacheTTL, now, socketReady, calls,
                   registryVars, turnVars, histVars, child, turns>>

NextClient ==
    \/ LoadConversationsStart
    \/ \E data \in ServerLists : LoadConversationsCompletes(data)
    \/ LoadConversationsFails
    \/ \E id \in ConvIds, t \in QueuedTitles : updateConversationTitle(id, t)

SpecClient == InitService /\ [][NextClient]_vars

\* ------------------------------------------------------ process launcher
\* unnamed/part_000: spawnAgentProcess and the handlers it installs on the child.
\* child.stdin is the worker's input channel ("open" until end() has been
\* called on it), child.logger the launcher's log records, child.logFile the
\* lines written to the per-conversation log file.

\* lines 95-204: spawn the worker, write the start marker, install the handlers,
\* write the query to stdin and end it inside one try block.  kwargs are the
\* optional argument bundles given; write is how the write attempt goes.
spawnAgentProcess(kwargs, write) ==
    /\ child.pc = "none"
    /\ child' = [pc |-> "running",
                 args |-> kwargs,
                 stdin |-> IF write = "ok" THEN "ended" ELSE "open",
                 query |-> IF write = "writeThrows" THEN "none" ELSE "written",
                 logger |-> <<"Spawning agent process",
                              IF write = "ok" THEN "Query written to agent stdin"
                              ELSE "Failed to write query to stdin">>,
                 logFile |-> <<"Agent started">>,
                 logStreamEnds |-> 0,
                 threw |-> FALSE,
                 data |-> 0]
    /\ UNCHANGED <<conversations, messages, messagesCache, messagesCacheTTL,
                   conversationsCache, conversationsCacheTTL, now, socketReady, calls,
                   chat, turns, registryVars, turnVars, histVars>>

\* lines 149-171: a chunk arrives on the child's stdout or stderr
ChildData(stream) ==
    /\ child.pc = "running"
    /\ child.data < MaxData
    /\ child' = [child EXCEPT !.data = @ + 1,
                              !.logFile = Append(@, stream),
                              !.logger = Append(@, stream)]
    /\ UNCHANGED <<conversations, messages, messagesCache, messagesCacheTTL,
                   conversationsCache, conversationsCacheTTL, now, socketReady, calls,
                   chat, turns, registryVars, turnVars, histVars>>

\* lines 185-192: the 'exit' handler
ChildExit ==
    /\ child.pc \in {"running", "errored"}
    /\ child' = [child EXCEPT !.pc = "exited",
                              !.logFile = IF child.logStreamEnds = 0
                                          THEN Append(@, "EXIT") ELSE @,
                              !.logStreamEnds = @ + 1,
                              !.logger = Append(@, "Agent process exited")]
    /\ UNCHANGED <<conversations, messages, messagesCache, messagesCacheTTL,
                   conversationsCache, conversationsCacheTTL, now, socketReady, calls,
                   chat, turns, registryVars, turnVars, histVars>>

\* lines 194-201: the 'error' handler (the process could not be started, or
\* could not be signalled)
ChildError ==
    /\ child.pc = "running"
    /\ child' = [child EXCEPT !.pc = "errored",
                              !.logFile = Append(@, "ERROR"),
                              !.logStreamEnds = @ + 1,
                              !.logger = Append(@, "Agent process error")]
    /\ UNCHANGED <<conversations, messages, messagesCache, messagesCacheTTL,
                   conversationsCache, conversationsCacheTTL, now, socketReady, calls,
                   chat, turns, registryVars, turnVars, histVars>>

NextLauncher ==
    \/ \E kwargs \in SUBSET {"clientKwargs", "generateKwargs"},
          write \in {"ok", "writeThrows", "endThrows"} :
             spawnAgentProcess(kwargs, write)
    \/ \E stream \in {"stdout", "stderr"} : ChildData(stream)
    \/ ChildExit
    \/ ChildError

SpecLauncher == Init /\ [][NextLauncher]_vars

\* --------------------------------- the save, for every list of relayed events
\* The turn on an existing conversation at the point where the worker has
\* pushed the events `relayed` and exited, the loop has relayed them in one
\* iteration and has been left by the liveness check: the save is next.

RelayedLists == UNION {[1..n -> WorkerEvents] : n \in 0..MaxEvents}

RECURSIVE ContentAfter(_)
\* assistantContent after the loop relayed the events
ContentAfter(relayed) ==
    IF relayed = <<>> THEN <<>>
    ELSE CollectContent(ContentAfter(SubSeq(relayed, 1, Len(relayed) - 1)),
                        relayed[Len(relayed)])

RECURSIVE EventsAfter(_)
\* assistantEvents after the loop relayed the events
EventsAfter(relayed) ==
    IF relayed = <<>> THEN <<>>
    ELSE CollectEvents(EventsAfter(SubSeq(relayed, 1, Len(relayed) - 1)),
                       relayed[Len(relayed)])

AtSave(relayed) ==
    /\ calls = [i \in Calls |-> IdleCall]
    /\ chat = EmptyChat
    /\ child = NoChild
    /\ turns = [t \in Turns |-> NoTurn]
    /\ conversations = [c \in {ExistingConv} |->
                            [userId |-> User, title |-> <<"o">>, updatedAt |-> 1]]
    /\ messages = <<[id |-> UserMessageId, conversationId |-> ExistingConv,
                      role |-> "user", content |-> Message, metadata |-> <<>>]>>
    /\ messagesCache = [c \in ConvIds |-> NoPages]
    /\ messagesCacheTTL = [c \in ConvIds |-> FALSE]
    /\ conversationsCache = NoPages
    /\ conversationsCacheTTL = FALSE
    /\ now = 1
    /\ socketReady = TRUE
    /\ runExists = TRUE
    /\ runAlive = FALSE
    /\ sseCallback = TRUE
    /\ convInput = ExistingConv
    /\ pc = "saving"
    /\ conversationId = ExistingConv
    /\ isNewConversation = FALSE
    /\ assistantContent = ContentAfter(relayed)
    /\ assistantEvents = EventsAfter(relayed)
    /\ messageQueue = <<>>
    \* a wait that ended by its timer leaves the stale resolver in place
    /\ resolveWaiting = (relayed = <<>>)
    /\ titlePc = "idle"
    /\ title = NoTitle
    /\ yielded = <<StartRecord(ExistingConv)>> \o relayed
    /\ presence = Broadcast(<<>>, <<ReplyingState(TRUE, ExistingConv)>>)
    /\ pushed = relayed
    /\ dropped = 0
    /\ pushes = Len(relayed)
    /\ timeouts = 0
    /\ saveCalls = 0
    /\ saveOutcome = "none"
    /\ exitPath = "stopped"
    /\ iter = IF relayed = <<>> THEN [wait |-> "timeout", relayed |-> 0]
              ELSE [wait |-> "push", relayed |-> Len(relayed)]
    /\ interrupted = NotInterrupted

InitMerge == \E relayed \in RelayedLists : AtSave(relayed)

NextMerge ==
    \/ SaveAssistantMessage
    \/ Finish

SpecMerge == InitMerge /\ [][NextMerge]_vars

\* ------------------------------------------------------------ properties

MsgCount(id) == Cardinality({i \in 1..Len(messages) : messages[i].id = id})
StoredMessage(id) == messages[CHOOSE i \in 1..Len(messages) : messages[i].id = id]
DoneYielded == Count(yielded, "done") > 0
\* the relay loop has been entered and not yet left
LoopPcs == {"waiting", "woken", "atEvent", "atHeartbeat"}
\* the messages the loop has taken off the queue, in order
Dequeued == SubSeq(pushed, 1, Len(pushed) - Len(messageQueue))
IsRelayed(r) == r.type \notin {"start", "heartbeat", "done"}
\* the worker's and the title task's events among the yielded records, in order
Relayed == SelectSeq(yielded, IsRelayed)
IsTextEvent(e) == e.type \in {"chunk", "text"}
RECURSIVE Concat(_)
Concat(events) ==
    IF events = <<>> THEN <<>> ELSE Head(events).content \o Concat(Tail(events))
\* broadcasts of replying=false attempted so far
OffBroadcasts ==
    Cardinality({i \in 1..Len(presence) :
                    presence[i].signal = "replying" /\ ~presence[i].replying})
\* one step of the generator or of its consumer is possible
LoopCanStep ==
    ENABLED (WaitTimeout \/ ResumeAfterPush \/ ResumeAfterEvent \/ ResumeAfterHeartbeat)

\* C1 as stated: a turn that yielded `done` has exactly one user message and
\* exactly one assistant message in the store.
C1_ExactlyOnePerRole ==
    DoneYielded => MsgCount(UserMessageId) = 1 /\ MsgCount(AssistantMessageId) = 1

\* C1 (amended): a turn that yielded `done` has exactly one user message in the
\* store, and exactly one assistant message unless the store rejected the
\* creation of the assistant message, in which case it has none; never two.
C1_OnePerRoleUnlessSaveRejected ==
    DoneYielded =>
        /\ MsgCount(UserMessageId) = 1
        /\ MsgCount(AssistantMessageId) = IF saveOutcome = "createFail" THEN 0 ELSE 1

C1_Witness ==
    /\ DoneYielded
    /\ Len(Relayed) = 2
    /\ MsgCount(UserMessageId) = 1
    /\ MsgCount(AssistantMessageId) = 1

\* C2: the loop is left for the save only by the first end signal taken off the
\* queue or by finding the queue empty and the run not alive; on either path
\* saveAssistantMessage is called exactly once and `done` is yielded exactly once,
\* as the last record.
C2_LoopEndsOnce ==
    /\ saveCalls <= 1
    /\ Count(yielded, "done") <= 1
    /\ Count(Dequeued, "null") <= 1
    /\ Count(Dequeued, "null") = 1 <=>
          (exitPath = "sentinel" /\ Dequeued[Len(Dequeued)] = Null)
    /\ exitPath = "stopped" => ~runAlive
    /\ pc \in {"saving", "atDone"} => exitPath \in {"sentinel", "stopped"}
    /\ exitPath \in {"sentinel", "stopped"} =>
          /\ pc \in {"saving", "atDone", "ended"}
          /\ pc = "saving" => saveCalls = 0 /\ ~DoneYielded
          /\ pc \in {"atDone", "ended"} =>
                /\ saveCalls = 1
                /\ Count(yielded, "done") = 1
                /\ yielded[Len(yielded)].type = "done"

C2_Witness ==
    /\ pc = "ended"
    /\ exitPath = "sentinel"
    /\ saveCalls = 1
    /\ Len(Relayed) = 1
    /\ Len(messageQueue) = 0

\* C3: the events yielded to the consumer are, in order, the first events that
\* were put on the queue: the relay never reorders them.
C3_RelayedInPushOrder ==
    /\ Len(Relayed) <= Len(pushed)
    /\ Relayed = SubSeq(pushed, 1, Len(Relayed))

C3_Witness ==
    /\ Len(Relayed) = 2
    /\ Relayed[1].seq > Relayed[2].seq

\* C4 as stated: a listMessages call that started after a write had returned
\* returns a page of the conversation as it was when that write returned, or
\* later: never a page of the rows from before the write.
C4_NoStalePageAfterWrite ==
    \A i \in Calls :
        (calls[i].op = "listMessages" /\ calls[i].pc = "returned") =>
            \E n \in calls[i].mustSee..Len(RowsOf(ExistingConv)) :
                calls[i].result = Page(SubSeq(RowsOf(ExistingConv), 1, n), calls[i].tag)

C6_UserMessageBeforeStart ==
    yielded # <<>> =>
        /\ MsgCount(UserMessageId) = 1
        /\ StoredMessage(UserMessageId).content = Message
        /\ StoredMessage(UserMessageId).conversationId = conversationId
        /\ yielded[1] = StartRecord(conversationId)
        /\ conversationId \in DOMAIN conversations
        /\ conversationId = IF convInput = NoConv THEN NewConv ELSE convInput

C6_Witness ==
    /\ convInput = NoConv
    /\ yielded = <<StartRecord(NewConv)>>
    /\ MsgCount(UserMessageId) = 1

\* C7 as stated: a heartbeat is yielded only by an iteration whose wait elapsed
\* its timeout and which relayed nothing.
C7_HeartbeatOnlyAfterIdleTimeout ==
    pc = "atHeartbeat" => iter.wait = "timeout" /\ iter.relayed = 0

C9_CancellationVisible ==
    interrupted.result = "true" =>
        /\ ~runAlive
        /\ Count(yielded, "heartbeat") = interrupted.heartbeats
        /\ interrupted.waits <= 1
        /\ pc \in LoopPcs => LoopCanStep

C9_Witness ==
    /\ interrupted.result = "true"
    /\ interrupted.waits = 1
    /\ pc = "waiting"

\* C10 as stated: no event handed to pushToSSEQueue for the reply id is dropped
\* for lack of a registered callback.
C10_NoEventDropped == dropped = 0

\* the positions of sendMessageStreaming before registerSSECallback has run
PreRegistrationPcs == {"begin", "saveUser", "presenceOn", "atStart", "spawned", "threw"}

\* C11: title assignment has been started only if the conversation is new and
\* the callback has been registered before; the registration and the entry into
\* the loop never wait for it: from `spawned` the generator can always go on,
\* and the loop runs while the title task is still pending.
C11_TitleStartedAfterRegistration ==
    /\ titlePc # "idle" =>
          /\ isNewConversation
          /\ pc \notin PreRegistrationPcs
          /\ exitPath = "none" /\ pc # "ended" => sseCallback
    /\ pc = "spawned" => titlePc = "idle" /\ ENABLED RegisterCallback

C11_Witness ==
    /\ titlePc = "started"
    /\ pc = "atEvent"
    /\ sseCallback
    /\ Len(Relayed) = 1

\* C16: when the store has rejected the save of the assistant message, `done`
\* has still been yielded as the last record, the generator goes on to its
\* finally block, and once it has ended the callback is deregistered and
\* replying=false has been broadcast.
C16_SaveFailureStillDone ==
    (saveCalls = 1 /\ saveOutcome # "ok") =>
        /\ pc \in {"atDone", "ended"}
        /\ Count(yielded, "done") = 1
        /\ yielded[Len(yielded)].type = "done"
        /\ pc = "atDone" => ENABLED Finish
        /\ pc = "ended" => ~sseCallback /\ OffBroadcasts >= 1

C16_Witness ==
    /\ saveOutcome = "createFail"
    /\ pc = "ended"
    /\ MsgCount(AssistantMessageId) = 0
    /\ DoneYielded
    /\ ~sseCallback

\* the store or the cache rejected the save of the user message
UserSaveFailed == pc = "threw" /\ (convInput # NoConv \/ isNewConversation)

\* C17 as stated: a failed save of the user message does not abort the turn.
C17_UserSaveFailureDoesNotAbort == ~UserSaveFailed

C19_FallbackTitleCommitted ==
    (titlePc = "done" /\ title.fallback) =>
        /\ title.text = SubSeq(Message, 1, 10)
        /\ conversations[conversationId].title =
              IF title.commit = "updateFail" THEN Slice(Message, 50)
              ELSE SubSeq(Message, 1, 10)

C19_Witness ==
    /\ titlePc = "done"
    /\ title.fallback
    /\ title.commit = "ok"
    /\ Len(conversations[NewConv].title) = 10
    /\ conversations[NewConv].title # Message

\* C12 as stated: no operation of the service fails because a cache operation
\* was rejected.
C12_CacheFailureNeverFails ==
    \A i \in Calls : calls[i].error # "cache"

C14_WriteClearsConversationList ==
    [][\A i \in Calls :
          (calls[i].op \in WriteOps /\ calls[i].pc # "returned"
              /\ calls'[i].pc = "returned") =>
             conversationsCache' = NoPages]_vars

\* C15: a call by a user who does not own the conversation never gets past the
\* access check: it ends with ForbiddenError, or with NotFoundError when the
\* conversation does not exist; ForbiddenError is raised only to a non-owner of
\* an existing conversation and NotFoundError only when the conversation is
\* absent; and the step that raises either leaves the store and both caches as
\* they are.
C15_AccessCheckedFirst ==
    /\ [](\A i \in Calls :
            /\ calls[i].user = OtherUser =>
                  /\ calls[i].pc \in {"findUnique", "threw"}
                  /\ calls[i].result = <<>>
                  /\ calls[i].pc = "threw" => calls[i].error \in {"Forbidden", "NotFound"}
            /\ calls[i].error = "Forbidden" =>
                  calls[i].user = OtherUser /\ calls[i].pc = "threw"
            /\ calls[i].error = "NotFound" =>
                  ExistingConv \notin DOMAIN conversations /\ calls[i].pc = "threw")
    /\ [][\A i \in Calls :
            (calls[i].error = "none" /\ calls'[i].error \in {"Forbidden", "NotFound"}) =>
               /\ calls'[i].error = "Forbidden" <=>
                     (ExistingConv \in DOMAIN conversations
                        /\ conversations[ExistingConv].userId # calls[i].user)
               /\ UNCHANGED <<conversations, messages, messagesCache, messagesCacheTTL,
                              conversationsCache, conversationsCacheTTL>>]_vars

C15_Witness ==
    \E i, j \in Calls :
        /\ calls[i].error = "Forbidden"
        /\ calls[j].error = "NotFound"
        /\ calls[j].user = OtherUser

\* a loadConversations answer is put into the store in this step
LoadCompleted == chat'.completed = chat.completed + 1

C21_MergeIdempotent ==
    /\ mergeAdjacentTextEvents(mergeAdjacentTextEvents(assistantEvents)) =
          mergeAdjacentTextEvents(assistantEvents)
    /\ MsgCount(AssistantMessageId) = 1 =>
          mergeAdjacentTextEvents(StoredMessage(AssistantMessageId).metadata) =
             StoredMessage(AssistantMessageId).metadata

C21_Witness ==
    /\ pc = "atDone"
    /\ Len(assistantEvents) = 3
    /\ MsgCount(AssistantMessageId) = 1
    /\ StoredMessage(AssistantMessageId).metadata =
          <<[type |-> "text", content |-> <<"a", "b", "a">>]>>

\* C22 as stated: once spawnAgentProcess has returned, the worker's input
\* channel has been closed, whether or not the write went through, and the
\* launcher has not thrown.
C22_InputAlwaysClosed ==
    child.pc # "none" => child.stdin = "ended" /\ ~child.threw

\* C23 as stated: interruptAgent returns true exactly when terminateAgent found
\* and signalled a live run; it then broadcasts replying=false and the cancelled
\* signal with the reply id; when it returns false it broadcasts nothing.
C23_InterruptBroadcastsOnSuccess ==
    [][(interrupted.result = "none" /\ interrupted'.result # "none") =>
          /\ interrupted'.result = "true" <=> (runExists /\ runAlive)
          /\ interrupted'.result = "true" =>
                presence' = presence \o
                   <<[signal |-> "replying", replying |-> FALSE, conv |-> NoConv,
                      delivered |-> TRUE],
                     [signal |-> "cancelled", replying |-> FALSE, conv |-> ReplyId,
                      delivered |-> TRUE]>>
          /\ interrupted'.result = "false" => presence' = presence]_vars

\* C23 (amended): interruptAgent returns true exactly when terminateAgent found
\* and signalled a live run, which is then no longer alive; with the socket
\* manager ready it then broadcasts replying=false followed by the cancelled
\* signal with the reply id; with the socket manager not ready the failure is
\* swallowed, neither signal is delivered, the cancelled signal is not attempted
\* and true is still returned; when it returns false it broadcasts nothing and
\* leaves the run as it is.
C23_InterruptBroadcastsWhenSocketReady ==
    [][(interrupted.result = "none" /\ interrupted'.result # "none") =>
          /\ interrupted'.result = "true" <=> (runExists /\ runAlive)
          /\ interrupted'.result = "true" =>
                /\ ~runAlive'
                /\ presence' = presence \o
                      (IF socketReady
                       THEN <<[signal |-> "replying", replying |-> FALSE,
                               conv |-> NoConv, delivered |-> TRUE],
                              [signal |-> "cancelled", replying |-> FALSE,
                               conv |-> ReplyId, delivered |-> TRUE]>>
                       ELSE <<[signal |-> "replying", replying |-> FALSE,
                               conv |-> NoConv, delivered |-> FALSE]>>)
          /\ interrupted'.result = "false" =>
                presence' = presence /\ runAlive' = runAlive]_vars

C23_Witness ==
    /\ interrupted.result = "true"
    /\ socketReady
    /\ pc = "atEvent"
    /\ Len(presence) = 3
    /\ presence[2].signal = "replying" /\ ~presence[2].replying /\ presence[2].delivered
    /\ presence[3].signal = "cancelled" /\ presence[3].conv = ReplyId

\* C24: while the worker stays alive and pushes nothing, the turn stays in the
\* relay loop: nothing is saved and `done` is not yielded; every timeout that
\* elapses yields a heartbeat; and the next timeout always elapses, as many
\* times as the run is given (MaxIdleTimeouts).
C24_IdleLoopKeepsBeating ==
    /\ [](runAlive =>
            /\ pc \in {"spawned"} \cup LoopPcs
            /\ saveCalls = 0
            /\ ~DoneYielded
            /\ Count(yielded, "heartbeat") >= timeouts)
    /\ [][(runAlive /\ timeouts' = timeouts + 1) =>
            (yielded' = Append(yielded, Heartbeat) /\ pc' = "atHeartbeat")]_vars
    /\ \A k \in 0..(MaxIdleTimeouts - 1) :
          (runAlive /\ timeouts = k) ~>
             (runAlive /\ timeouts = k + 1 /\ pc = "atHeartbeat")

C24_Witness ==
    /\ runAlive
    /\ pushes = 0
    /\ pc = "waiting"
    /\ timeouts = MaxIdleTimeouts
    /\ Count(yielded, "heartbeat") = MaxIdleTimeouts
    /\ yielded[Len(yielded)] = Heartbeat

\* C25: a presence broadcast that fails is swallowed.  From the broadcast of
\* replying=true the generator always goes on to yield `start`, so whenever that
\* broadcast was not delivered `start` is the first record yielded; the
\* generator rejects only before any broadcast was attempted and before any
\* record was yielded; after `done` the finally block can always run, and with
\* its replying=false broadcast not delivered the turn has ended normally with
\* the callback deregistered.
C25_BroadcastFailureSwallowed ==
    /\ pc = "presenceOn" => ENABLED BroadcastAndYieldStart
    /\ pc = "threw" => yielded = <<>> /\ presence = <<>>
    /\ \A i \in 1..Len(presence) :
          (presence[i].replying /\ ~presence[i].delivered) =>
             /\ yielded # <<>>
             /\ yielded[1] = StartRecord(conversationId)
    /\ pc = "atDone" => ENABLED Finish
    /\ (pc = "ended" /\ exitPath # "abandonedAtStart") =>
          /\ ~sseCallback
          /\ \E i \in 1..Len(presence) :
                /\ presence[i] = [signal |-> "replying", replying |-> FALSE,
                                  conv |-> NoConv, delivered |-> socketReady]

C25_Witness ==
    /\ ~socketReady
    /\ pc = "ended"
    /\ DoneYielded
    /\ Len(Relayed) = 1
    /\ Len(presence) = 2
    /\ presence[1].replying /\ ~presence[1].delivered
    /\ ~presence[2].replying /\ ~presence[2].delivered

\* C26: the step in which title assignment ends after a failure (of the
\* completion call, which makes the title the fallback, or of the commit)
\* leaves the generator where it is, or wakes it from its wait by the
\* title_generated event; it changes neither what the turn has collected,
\* yielded, saved or broadcast, nor the way the loop was or will be left, nor
\* the registration or the liveness of the run; after a failed commit nothing
\* is queued at all.
C26_TitleFailureContained ==
    [][(titlePc = "started" /\ titlePc' = "done"
          /\ (title'.fallback \/ title'.commit # "ok")) =>
          /\ pc' = pc \/ (pc = "waiting" /\ pc' = "woken")
          /\ UNCHANGED <<assistantContent, assistantEvents, yielded, presence,
                         messages, exitPath, saveCalls, saveOutcome, conversationId,
                         runExists, runAlive, sseCallback>>
          /\ title'.commit # "ok" =>
                UNCHANGED <<pc, messageQueue, resolveWaiting, pushed, dropped, iter>>]_vars

C26_Witness ==
    /\ titlePc = "done"
    /\ title.commit = "updateFail"
    /\ ~title.fallback
    /\ pc = "ended"
    /\ exitPath = "sentinel"
    /\ Len(Relayed) = 1
    /\ MsgCount(AssistantMessageId) = 1

\* C27 as stated, in the reading that asks least of the caches: at the step in
\* which deleteConversation returns, the conversation is absent from the store,
\* the conversation's message-list hash holds no entry and no page of the
\* owner's conversation-list hash still lists the conversation.
C27_DeleteLeavesNoCacheEntry ==
    [][\A i \in Calls :
          (calls[i].op = "deleteConversation" /\ calls[i].pc # "returned"
              /\ calls'[i].pc = "returned") =>
             /\ ExistingConv \notin DOMAIN conversations'
             /\ messagesCache'[ExistingConv] = NoPages
             /\ \A t \in DOMAIN conversationsCache' :
                   \A k \in 1..Len(conversationsCache'[t]) :
                      conversationsCache'[t][k].id # ExistingConv]_vars

\* C28: the stored assistant message has as content the contents of the text
\* and chunk events relayed in the turn, concatenated in relay order, or the
\* placeholder when that is empty; its metadata is the transcript of the relayed
\* events with adjacent text entries merged: no two neighbours are both text,
\* the other entries are those of the thinking, tool_call and tool_result
\* events in relay order, and the text entries concatenate to the same text.
C28_PersistedContentAndMetadata ==
    MsgCount(AssistantMessageId) = 1 =>
        LET m == StoredMessage(AssistantMessageId)
            text == Concat(SelectSeq(Relayed, IsTextEvent))
            others == SelectSeq(Relayed, LAMBDA e :
                          e.type \in {"thinking", "tool_call", "tool_result"})
        IN /\ m.role = "assistant"
           /\ m.content = IF text = <<>> THEN NoTextContent ELSE text
           /\ m.metadata = mergeAdjacentTextEvents(EventsAfter(Relayed))
           /\ \A k \in 1..(Len(m.metadata) - 1) :
                 ~(m.metadata[k].type = "text" /\ m.metadata[k + 1].type = "text")
           /\ SelectSeq(m.metadata, LAMBDA e : e.type # "text") =
                 [k \in 1..Len(others) |->
                     [type |-> others[k].type, content |-> others[k].content]]
           /\ Concat(SelectSeq(m.metadata, LAMBDA e : e.type = "text")) = text

C28_Witness ==
    /\ pc = "ended"
    /\ MsgCount(AssistantMessageId) = 1
    /\ Len(Relayed) = 2
    /\ Relayed[1].type = "thinking"
    /\ Relayed[2].type = "chunk"
    /\ StoredMessage(AssistantMessageId).content = <<"b">>
    /\ StoredMessage(AssistantMessageId).metadata =
          <<[type |-> "thinking", content |-> <<"t">>],
            [type |-> "text", content |-> <<"b">>]>>

\* C29: the step that yields a thinking, tool_call or tool_result event appends
\* exactly that one entry to the transcript and leaves the text buffer as it
\* is; the step that yields a title_generated event or a heartbeat leaves both
\* as they are; so the stored assistant message has only text, thinking,
\* tool_call and tool_result entries, and its content is text of text and chunk
\* events or the placeholder.
C29_OnlyTranscriptEventsCollected ==
    /\ [][Len(yielded') = Len(yielded) + 1 =>
            LET r == yielded'[Len(yielded')]
            IN /\ r.type \in {"thinking", "tool_call", "tool_result"} =>
                     /\ assistantEvents' =
                           Append(assistantEvents,
                                  [type |-> r.type, content |-> r.content])
                     /\ assistantContent' = assistantContent
               /\ r.type \in {"title_generated", "heartbeat"} =>
                     UNCHANGED <<assistantContent, assistantEvents>>]_vars
    /\ [](MsgCount(AssistantMessageId) = 1 =>
            LET m == StoredMessage(AssistantMessageId)
            IN /\ \A k \in 1..Len(m.metadata) :
                     m.metadata[k].type \in
                        {"text", "thinking", "tool_call", "tool_result"}
               /\ \/ m.content = NoTextContent
                  \/ \A j \in 1..Len(m.content) :
                        \E e \in WorkerEvents :
                           IsTextEvent(e) /\ e.content = <<m.content[j]>>)

C29_Witness ==
    /\ pc = "ended"
    /\ Count(yielded, "heartbeat") = 1
    /\ Count(yielded, "title_generated") = 1
    /\ Count(yielded, "tool_call") = 1
    /\ MsgCount(AssistantMessageId) = 1
    /\ StoredMessage(AssistantMessageId).content = NoTextContent
    /\ StoredMessage(AssistantMessageId).metadata =
          <<[type |-> "tool_call", content |-> <<"c">>]>>

\* C30 as stated: for every operation that has appended its message, the step
\* that ends its update of the conversation advances the conversation's
\* updatedAt, also when that step fails the operation.
C30_AppendAdvancesUpdatedAt ==
    [][\A i \in Calls :
          (calls[i].op \in WriteOps /\ calls[i].msgIndex > 0
              /\ calls[i].pc = "update" /\ calls'[i].pc # "update") =>
             conversations'[ExistingConv].updatedAt >
                conversations[ExistingConv].updatedAt]_vars

\* C31 as stated, in the reading that allows for the moment between the two
\* cache writes of a read: whenever no read is between its hset and its expire,
\* a message-list hash or conversation-list hash that holds a page carries a
\* time-to-live.
C31_CachedScopeHasExpiry ==
    /\ (messagesCache[ExistingConv] # NoPages
          /\ \A i \in Calls : calls[i].pc # "expire") =>
          messagesCacheTTL[ExistingConv]
    /\ (conversationsCache # NoPages
          /\ \A i \in Calls : calls[i].pc # "expireConversations") =>
          conversationsCacheTTL

\* C32 as stated: at the step that yields `done`, the events relayed so far are
\* exactly the events put on the queue up to the first end signal, each once
\* and in order: nothing pushed before `done` and not behind an end signal is
\* left out, also when it was pushed while the assistant message was being
\* saved.
C32_EveryPushedEventRelayed ==
    [][(~DoneYielded /\ Count(yielded', "done") > 0) =>
          LET nulls == {i \in 1..Len(pushed) : pushed[i] = Null}
              n == IF nulls = {} THEN Len(pushed) + 1
                   ELSE CHOOSE i \in nulls : \A j \in nulls : i <= j
          IN Relayed' = SubSeq(pushed, 1, n - 1)]_vars

\* C33: once `done` has been yielded it is the only `done` and the last record,
\* and no step yields anything after it; when the loop was left by an end
\* signal, what was relayed and what was collected for the transcript are the
\* events pushed before that signal, and the stored assistant message is made
\* of them alone: whatever is queued behind the signal stays on the queue.
C33_DoneIsLast ==
    /\ [](DoneYielded =>
            /\ Count(yielded, "done") = 1
            /\ yielded[Len(yielded)] = DoneRecord(conversationId))
    /\ [][DoneYielded => yielded' = yielded]_vars
    /\ [](exitPath = "sentinel" =>
            LET n == CHOOSE i \in 1..Len(pushed) :
                        pushed[i] = Null /\ \A j \in 1..(i - 1) : pushed[j] # Null
                before == SubSeq(pushed, 1, n - 1)
            IN /\ Relayed = before
               /\ assistantEvents = EventsAfter(before)
               /\ assistantContent = ContentAfter(before)
               /\ messageQueue = SubSeq(pushed, n + 1, Len(pushed))
               /\ MsgCount(AssistantMessageId) = 1 =>
                     /\ StoredMessage(AssistantMessageId).metadata =
                           mergeAdjacentTextEvents(EventsAfter(before))
                     /\ StoredMessage(AssistantMessageId).content =
                           ContentOrPlaceholder(Join(ContentAfter(before))))

C33_Witness ==
    /\ pc = "ended"
    /\ exitPath = "sentinel"
    /\ Len(pushed) = 3
    /\ pushed[1].type = "tool_call"
    /\ pushed[2] = Null
    /\ pushed[3].type = "title_generated"
    /\ messageQueue = <<pushed[3]>>
    /\ Len(yielded) = 3
    /\ MsgCount(AssistantMessageId) = 1
    /\ StoredMessage(AssistantMessageId).metadata =
          <<[type |-> "tool_call", content |-> <<"c">>]>>

\* C34: the step that ends title assignment pushes a title_generated event
\* exactly when the commit went through; the event carries the committed title,
\* and after that step the conversation has that title in the store and the
\* user's conversation-list hash holds no page; when the update or the
\* invalidation was rejected nothing is handed to the run's queue, in that step
\* or later in the turn.
C34_TitlePushedAfterCommit ==
    /\ [][(titlePc = "started" /\ titlePc' = "done") =>
            IF title'.commit = "ok"
            THEN /\ \/ /\ pushed' = Append(pushed, TitleEvent(title'.text))
                       /\ messageQueue' = Append(messageQueue, TitleEvent(title'.text))
                       /\ dropped' = dropped
                    \/ /\ dropped' = dropped + 1
                       /\ UNCHANGED <<pushed, messageQueue>>
                 /\ conversations'[conversationId].title = title'.text
                 /\ conversationsCache' = NoPages
                 /\ ~conversationsCacheTTL'
            ELSE UNCHANGED <<pushed, messageQueue, dropped, conversationsCache>>]_vars
    /\ [](Count(pushed, "title_generated") + dropped > 0 =>
            /\ titlePc = "done"
            /\ title.commit = "ok"
            /\ Count(pushed, "title_generated") + dropped = 1
            /\ conversations[conversationId].title = title.text)

C34_Witness ==
    /\ titlePc = "done"
    /\ title.commit = "ok"
    /\ Count(yielded, "title_generated") = 1
    /\ conversationsCache = NoPages
    /\ \E i \in Calls :
          /\ calls[i].pc = "expireConversations"
          /\ Len(calls[i].result) = 2
          /\ calls[i].result[1].id = NewConv
          /\ calls[i].result[1].title = Slice(Message, 50)

\* C35 as stated: when a turn on a new conversation has ended after its loop
\* was left by the end signal or by the liveness check, and title assignment
\* has committed its title, the title_generated event with that title is among
\* the records yielded before `done`.
C35_TitleRelayedBeforeDone ==
    (pc = "ended" /\ exitPath \in {"sentinel", "stopped"}
        /\ titlePc = "done" /\ title.commit = "ok") =>
        \E k \in 1..(Len(yielded) - 1) : yielded[k] = TitleEvent(title.text)

\* C36 as stated: a step in which the end or the cancellation of one turn
\* delivers a replying=false signal is taken only when no other turn is in its
\* relay loop.
C36_NoPresenceOffWhileOthersRelay ==
    [][\A t \in Turns :
          (turns'[t] # turns[t]
              /\ Len(presence') > Len(presence)
              /\ presence'[Len(presence) + 1].signal = "replying"
              /\ ~presence'[Len(presence) + 1].replying
              /\ presence'[Len(presence) + 1].delivered) =>
             \A u \in Turns \ {t} : turns[u].pc # "relaying"]_vars

\* C37 as stated: when updateConversationTitle has put a title on a listed
\* conversation and every load still in flight was already in flight then, the
\* answer of such a load, if it lists the conversation, leaves that title on it.
C37_InflightLoadKeepsAppliedTitle ==
    [][(LoadCompleted
          /\ chat.inflight > 0
          /\ chat.stale = chat.inflight
          /\ chat.titled.id \in ListedIds(chat.conversations)
          /\ TitleIn(chat.conversations, chat.titled.id) = chat.titled.title
          /\ chat.titled.id \in ListedIds(chat'.conversations)) =>
         TitleIn(chat'.conversations, chat.titled.id) = chat.titled.title]_vars

\* C38: for the entry list handed to it by the save, mergeAdjacentTextEvents
\* returns a list in which no two neighbours are both text, whose other
\* entries are those of the input, unchanged and in the same order, and whose
\* text contents concatenate to the concatenation of the input's; the list
\* handed in is the same after the call, entry by entry; and what is stored
\* is the list returned.
C38_MergePreservesEntries ==
    [][saveCalls' = saveCalls + 1 =>
          LET input == assistantEvents
              output == mergeAdjacentTextEvents(input)
              IsText(e) == e.type = "text"
              NotText(e) == e.type # "text"
          IN /\ \A k \in 1..(Len(output) - 1) :
                   ~(IsText(output[k]) /\ IsText(output[k + 1]))
             /\ SelectSeq(output, NotText) = SelectSeq(input, NotText)
             /\ Concat(SelectSeq(output, IsText)) = Concat(SelectSeq(input, IsText))
             /\ Len(output) <= Len(input)
             /\ assistantEvents' = input
             /\ MsgCount(AssistantMessageId)' = 1 =>
                   StoredMessage(AssistantMessageId)'.metadata = output]_vars

C38_Witness ==
    /\ pc = "atDone"
    /\ saveCalls = 1
    /\ assistantEvents = <<[type |-> "text", content |-> <<"a">>],
                           [type |-> "text", content |-> <<"b">>],
                           [type |-> "thinking", content |-> <<"t">>]>>
    /\ MsgCount(AssistantMessageId) = 1
    /\ StoredMessage(AssistantMessageId).metadata =
          <<[type |-> "text", content |-> <<"a", "b">>],
            [type |-> "thinking", content |-> <<"t">>]>>

====
